---------------------------- MODULE Spec2Model ----------------------------
(***************************************************************************)
(* A model of the document-ingest pipeline of local-RAG-backend:           *)
(*   - RegisterDocumentUseCase.execute_parallel (phase 1: parse/convert/   *)
(*     stage, phase 2: register episodes, final move check),               *)
(*   - ChunkFileManager (the staging store) and FileSystemDocumentReader   *)
(*     (the file moves), with the path arithmetic they perform,            *)
(*   - RateLimitCoordinator and GraphitiEpisodeRepository.save.            *)
(*                                                                         *)
(* Python strings are modelled as sequences of one-character strings, so   *)
(* that `in`, str.split, str.replace and the pathlib operations are        *)
(* computed the way the code computes them.                                *)
(***************************************************************************)
EXTENDS Integers, Sequences, FiniteSets, TLC

(***************************************************************************)
(* str and pathlib                                                         *)
(***************************************************************************)

\* s[i:] starts with t (1-based i)
StartsAt(s, t, i) ==
    /\ i >= 1
    /\ i + Len(t) - 1 <= Len(s)
    /\ \A k \in 1..Len(t) : s[i + k - 1] = t[k]

\* str.find + 1: the first index at which t occurs in s, 0 when it does not
StrFind(s, t) ==
    IF \E i \in 1..Len(s) : StartsAt(s, t, i)
    THEN CHOOSE i \in 1..Len(s) :
            StartsAt(s, t, i) /\ \A j \in 1..(i - 1) : ~StartsAt(s, t, j)
    ELSE 0

\* t in s
StrIn(t, s) == \E i \in 1..Len(s) : StartsAt(s, t, i)

\* s.split(sep)[0]
SplitFirst(s, sep) ==
    LET i == StrFind(s, sep) IN IF i = 0 THEN s ELSE SubSeq(s, 1, i - 1)

\* s.split(sep)[-1]: str.split scans left to right over non-overlapping matches
RECURSIVE SplitLast(_, _)
SplitLast(s, sep) ==
    LET i == StrFind(s, sep)
    IN  IF i = 0 THEN s ELSE SplitLast(SubSeq(s, i + Len(sep), Len(s)), sep)

\* s.replace(old, new)
RECURSIVE StrReplace(_, _, _)
StrReplace(s, old, new) ==
    LET i == StrFind(s, old)
    IN  IF i = 0 THEN s
        ELSE SubSeq(s, 1, i - 1) \o new
                \o StrReplace(SubSeq(s, i + Len(old), Len(s)), old, new)

\* the index of the last "/" of p, 0 when there is none
LastSlash(p) ==
    IF \E i \in 1..Len(p) : p[i] = "/"
    THEN CHOOSE i \in 1..Len(p) : p[i] = "/" /\ \A j \in (i + 1)..Len(p) : p[j] # "/"
    ELSE 0

IsAbsolute(p) == Len(p) > 0 /\ p[1] = "/"

\* Path(p).name
PathName(p) == SubSeq(p, LastSlash(p) + 1, Len(p))

\* Path(p).parent
PathParent(p) ==
    LET i == LastSlash(p)
    IN  IF i = 0 THEN <<".">> ELSE IF i = 1 THEN <<"/">> ELSE SubSeq(p, 1, i - 1)

\* Path(a) / b: an absolute right operand replaces the left one
PathJoin(a, b) == IF IsAbsolute(b) THEN b ELSE a \o <<"/">> \o b

\* p lies strictly below directory d (both written the same way)
IsBelow(p, d) == Len(p) > Len(d) + 1 /\ SubSeq(p, 1, Len(d)) = d /\ p[Len(d) + 1] = "/"

\* PurePath.relative_to raises ValueError when base is not a prefix of p
ValueError == <<"!ValueError">>
RelativeTo(p, base) ==
    IF IsBelow(p, base) THEN SubSeq(p, Len(base) + 2, Len(p)) ELSE ValueError

\* the index of the "." that starts Path(p).suffix within the name, 0 when none
SuffixDot(n) ==
    IF \E i \in 2..Len(n) : n[i] = "."
    THEN CHOOSE i \in 2..Len(n) : n[i] = "." /\ \A j \in (i + 1)..Len(n) : n[j] # "."
    ELSE 0

PathStem(p) ==
    LET n == PathName(p) i == SuffixDot(n)
    IN  IF i = 0 THEN n ELSE SubSeq(n, 1, i - 1)

PathSuffix(p) ==
    LET n == PathName(p) i == SuffixDot(n)
    IN  IF i = 0 THEN <<>> ELSE SubSeq(n, i, Len(n))


(***************************************************************************)
(* Literals of the source                                                  *)
(***************************************************************************)

InputPrefix     == <<"/", "i", "n", "p", "u", "t", "/">>
InputWorkPrefix == <<"/", "i", "n", "p", "u", "t", "_", "w", "o", "r", "k", "/">>
SlashInput      == <<"/", "i", "n", "p", "u", "t">>
SlashWork       == <<"/", "w", "o", "r", "k">>
SlashDone       == <<"/", "d", "o", "n", "e">>
WorkSegment     == <<"/", "w", "o", "r", "k", "/">>
DoneSegment     == <<"/", "d", "o", "n", "e", "/">>
InputSegment    == <<"/", "i", "n", "p", "u", "t", "/">>
ChunkNameInfix  == <<" ", "-", " ", "c", "h", "u", "n", "k", "_">>
NameSeparator   == <<" ", "-", " ">>

\* datetime.now().strftime("%Y%m%d_%H%M%S"), abstracted to one token
Timestamp == <<"T">>

Digit(i) == <<"0", "1", "2", "3", "4", "5", "6", "7", "8", "9">>[i + 1]

(***************************************************************************)
(* The environment of a run                                                *)
(***************************************************************************)

\* the working directory of the process; the data tree is /w/r/{input,work,done}
Cwd == <<"/", "w">>

\* Path.absolute()
Absolute(p) == IF IsAbsolute(p) THEN p ELSE Cwd \o <<"/">> \o p

\* the `directory` argument of the command line, one of the ways to name the tree:
\* the tree's root, its input directory, or the input directory relative to Cwd
DirRoot     == <<"/", "w", "/", "r">>
DirInput    == <<"/", "w", "/", "r", "/", "i", "n", "p", "u", "t">>
DirRelInput == <<"r", "/", "i", "n", "p", "u", "t">>
Directories == {DirRoot, DirInput, DirRelInput}

\* ChunkFileManager(chunks_directory): a directory relative to Cwd
ChunksDirectory == <<"k">>

\* the documents of the tree when the first run starts, by id
FileC == <<"/", "w", "/", "r", "/", "i", "n", "p", "u", "t", "/", "c", ".", "t", "x", "t">>
FileB == <<"/", "w", "/", "r", "/", "i", "n", "p", "u", "t", "/", "s", "/", "b", ".", "t", "x", "t">>
InitialFiles == {[path |-> FileC, doc |-> 1], [path |-> FileB, doc |-> 2]}
DocIds == {f.doc : f \in InitialFiles}

\* the number of chunks the parser derives from every document
NumChunks == 2
\* the number of runs (process starts) of a behaviour
MaxRuns == 3
\* the number of runs of a behaviour that end by a kill
MaxKills == 1

(***************************************************************************)
(* Domain objects                                                          *)
(***************************************************************************)

\* Chunk: the source document (by id and by its relative_path) and the position
Chunk(d, rel, pos) == [doc |-> d, rel |-> rel, pos |-> pos]

\* Chunk.to_episode: name = f"{relative_path} - chunk_{position}"
to_episode(c) ==
    [doc |-> c.doc, pos |-> c.pos, name |-> c.rel \o ChunkNameInfix \o <<Digit(c.pos)>>]

\* UnstructuredDocumentParser.parse + split_elements: NumChunks chunks, positions 0..
split_elements(d, rel) == [i \in 1..NumChunks |-> Chunk(d, rel, i - 1)]

\* the units (episodes) a document of the tree yields
Units == DocIds \X (0..(NumChunks - 1))

(***************************************************************************)
(* ChunkFileManager: the staging store.  `st` is the content of the store, *)
(* [ep, chunk, meta]: the episode_<idx>.json, chunk_<pos>.json and         *)
(* metadata.json files, each with the directory that holds it.  `files` is *)
(* the set of regular source files of the tree.                            *)
(***************************************************************************)

EmptyStore == [ep |-> {}, chunk |-> {}, meta |-> {}]

_get_chunk_directory(file_path) ==
    LET relative_path ==
            IF StrIn(InputPrefix, file_path) THEN SplitLast(file_path, InputPrefix)
            ELSE IF StrIn(InputWorkPrefix, file_path)
                 THEN SplitLast(file_path, InputWorkPrefix)
                 ELSE file_path
    IN  Absolute(PathJoin(ChunksDirectory, relative_path))

\* p is a regular file, or lies below one: nothing can exist at p as a directory
NotADirectory(files, p) ==
    \E f \in files : f.path = p \/ IsBelow(p, f.path)

\* chunk_dir.mkdir(parents=True, exist_ok=True) raises FileExistsError
MkdirFails(files, file_path) == NotADirectory(files, _get_chunk_directory(file_path))

has_chunk_files(st, file_path) ==
    \E m \in st.meta : m.dir = _get_chunk_directory(file_path)

has_saved_episodes(st, file_path) ==
    \E e \in st.ep : e.dir = _get_chunk_directory(file_path)

\* the episode file of an index exists
EpisodeFileExists(st, file_path, idx) ==
    \E e \in st.ep : e.dir = _get_chunk_directory(file_path) /\ e.idx = idx

\* save_episodes, for a call that gets past mkdir; the files are episode_{start+i}.json
save_episodes(st, file_path, episodes, start_index) ==
    LET dir == _get_chunk_directory(file_path)
        written == {[dir |-> dir, idx |-> start_index + i - 1, ep |-> episodes[i]] :
                        i \in 1..Len(episodes)}
    IN  IF episodes = <<>> THEN st
        ELSE [st EXCEPT !.ep =
                {e \in @ : ~(\E w \in written : w.dir = e.dir /\ w.idx = e.idx)}
                    \cup written]

\* load_episodes(file_path, i, i)[0] for an index whose file exists
LoadEpisode(st, file_path, idx) ==
    (CHOOSE e \in st.ep : e.dir = _get_chunk_directory(file_path) /\ e.idx = idx).ep

\* a delete_episode_files that ignores the range and empties the directory
delete_episode_files_WholeDirectory(st, file_path, start_index, end_index) ==
    [st EXCEPT !.ep = {e \in @ : e.dir # _get_chunk_directory(file_path)}]

\* delete_episode_files(file_path, start, end)
delete_episode_files(st, file_path, start_index, end_index) ==
    [st EXCEPT !.ep = {e \in @ : ~(/\ e.dir = _get_chunk_directory(file_path)
                                   /\ e.idx \in start_index..end_index)}]

\* save_chunks, for a call that gets past mkdir: one file per chunk, named by the
\* chunk's own position, and a metadata file with total_chunks = len(chunks)
save_chunks(st, chunks, file_path, last_processed_position) ==
    LET dir == _get_chunk_directory(file_path)
        written == {[dir |-> dir, pos |-> chunks[i].pos, chunk |-> chunks[i]] :
                        i \in 1..Len(chunks)}
    IN  IF chunks = <<>> THEN st
        ELSE [st EXCEPT
                !.chunk = {c \in @ : ~(\E w \in written : w.dir = c.dir /\ w.pos = c.pos)}
                            \cup written,
                !.meta = {m \in @ : m.dir # dir}
                            \cup {[dir |-> dir, total_chunks |-> Len(chunks),
                                   last_processed_position |-> last_processed_position]}]

\* the metadata of load_chunks
LoadMetadata(st, file_path) ==
    CHOOSE m \in st.meta : m.dir = _get_chunk_directory(file_path)

\* the chunks of load_chunks: the files chunk_0 .. chunk_{total_chunks-1} that exist
RECURSIVE LoadRange(_, _, _, _)
LoadRange(st, dir, position, total_chunks) ==
    IF position >= total_chunks THEN <<>>
    ELSE (IF \E c \in st.chunk : c.dir = dir /\ c.pos = position
          THEN <<(CHOOSE c \in st.chunk : c.dir = dir /\ c.pos = position).chunk>>
          ELSE <<>>)
            \o LoadRange(st, dir, position + 1, total_chunks)

load_chunks(st, file_path) ==
    LoadRange(st, _get_chunk_directory(file_path), 0,
              LoadMetadata(st, file_path).total_chunks)

\* delete_all_chunks: every file of the chunk directory goes, episode files included;
\* on a path that is not a directory iterdir raises OSError, which is swallowed
delete_all_chunks(st, files, file_path) ==
    LET dir == _get_chunk_directory(file_path)
    IN  IF NotADirectory(files, dir) THEN st
        ELSE [ep    |-> {e \in st.ep : e.dir # dir},
              chunk |-> {c \in st.chunk : c.dir # dir},
              meta  |-> {m \in st.meta : m.dir # dir}]

(***************************************************************************)
(* FileSystemDocumentReader and Document.from_file.  Directories are       *)
(* implicit: a directory exists when a file lies below it.                 *)
(***************************************************************************)

\* Path(p).exists()
Exists(files, p) ==
    \E f \in files : f.path = Absolute(p) \/ IsBelow(f.path, Absolute(p))

\* list_supported_files: the files below the directory (rglob)
list_supported_files(files, dir) == {f \in files : IsBelow(f.path, Absolute(dir))}

\* Document.from_file: file_path is absolute, relative_path is taken against the
\* resolved base directory and falls back to the file name
from_file(f, base_directory) ==
    [doc |-> f.doc,
     file_path |-> f.path,
     relative_path |-> IF IsBelow(f.path, Absolute(base_directory))
                       THEN RelativeTo(f.path, Absolute(base_directory))
                       ELSE PathName(f.path)]

\* move_file: where the file goes when the clock shows `timestamp`.  relative_to
\* compares the paths as written.
MoveDestinationAt(files, base_directory, source_path, destination_directory, timestamp) ==
    LET relative_path == RelativeTo(source_path, base_directory)
        destination_path ==
            IF relative_path # ValueError
            THEN PathJoin(destination_directory, relative_path)
            ELSE PathJoin(destination_directory, PathName(source_path))
    IN  IF Exists(files, destination_path)
        THEN PathJoin(PathParent(destination_path),
                      PathStem(destination_path) \o <<"_">> \o timestamp
                        \o PathSuffix(destination_path))
        ELSE destination_path

MoveDestination(files, base_directory, source_path, destination_directory) ==
    MoveDestinationAt(files, base_directory, source_path, destination_directory,
                      Timestamp)

\* move_file raises: FileNotFoundError when the source is gone, FileExistsError
\* when the destination's parent cannot be made
MoveRaises(files, base_directory, source_path, destination_directory) ==
    \/ ~Exists(files, source_path)
    \/ NotADirectory(files, Absolute(PathParent(
            MoveDestination(files, base_directory, source_path, destination_directory))))

\* shutil.move(source, dest): os.rename, which replaces a file at dest
shutil_move(files, source, dest) ==
    LET src == CHOOSE f \in files : f.path = source
    IN  {f \in files : f.path # src.path /\ f.path # dest}
            \cup {[path |-> dest, doc |-> src.doc]}

\* move_file, for a call that does not raise: the files after shutil.move
move_file(files, base_directory, source_path, destination_directory) ==
    shutil_move(files, Absolute(source_path),
                Absolute(MoveDestination(files, base_directory, source_path,
                                         destination_directory)))

(***************************************************************************)
(* RegisterDocumentUseCase: the directories of a run                       *)
(***************************************************************************)

input_directory(dir) == IF StrIn(SlashInput, dir) THEN dir ELSE dir \o SlashInput

work_directory(dir) ==
    IF StrIn(SlashInput, dir) THEN StrReplace(dir, SlashInput, SlashWork)
    ELSE dir \o SlashWork

done_directory(dir) ==
    IF StrIn(SlashInput, dir) THEN StrReplace(dir, SlashInput, SlashDone)
    ELSE dir \o SlashDone

\* the three places of the tree, as directories on disk
PendingDir    == <<"/", "w", "/", "r", "/", "i", "n", "p", "u", "t">>
InProgressDir == <<"/", "w", "/", "r", "/", "w", "o", "r", "k">>
DoneDir       == <<"/", "w", "/", "r", "/", "d", "o", "n", "e">>

(***************************************************************************)
(* State of the ingest pipeline                                            *)
(***************************************************************************)

\* the number of injected failures (parse, conversion, sink) of a behaviour
MaxFaults == 1

VARIABLES
    directory,        \* the `directory` argument of every run
    files,            \* the regular files of the tree: [path, doc]
    store,            \* the staging store: [ep, chunk, meta]
    registered,       \* the units the sink has durably registered
    sinkCalls,        \* <<run, doc, pos>> of every sink.save call made so far
    run,              \* the number of process starts so far
    pc,               \* "idle", "phase1", "phase2", "final", "ended"
    documents,        \* documents_to_process: doc id -> [file_path, relative_path, st, episodes]
    documents_in_work,\* the documents classified as in progress: sequence of paths
    all_episodes,     \* the episodes phase 1 handed to phase 2
    failed_files,     \* the paths recorded as failed
    episodes_by_file, \* the files phase 2 still has to register: <<[file_path, episodes, fresh]>>
    current,          \* the file phase 2 is registering: [file_path, task, episode]
    final_index,      \* the position of the final loop in documents_to_process
    success,          \* RegisterResult.success of the last run that returned
    faults,           \* the number of failures injected so far
    history           \* what has happened: [completed, killedIn, failed, returned,
                      \* initialize (the runs that called it, in order), aborted,
                      \* parse_failed, convert_failed (the failures of `failed` that the
                      \* parser and to_episode raised), raised (the runs in which a
                      \* collaborator raised: initialize, the parser, to_episode, the
                      \* episode file write, the sink)]

\* the reader and the functions of the program, each taken alone
VARIABLES
    fs,               \* a FileSystemDocumentReader and the tree it moves files in
    call              \* a call of a function: its arguments and what it returned

runVars ==
    <<directory, files, store, registered, sinkCalls, run, pc, documents,
      documents_in_work, all_episodes, failed_files, episodes_by_file, current,
      final_index, success, faults, history>>

pipelineVars == <<runVars, fs, call>>

\* the state of the rate limit coordinator and of the save calls (see below)
VARIABLES
    now,        \* datetime.now(), in seconds
    rl,         \* RateLimitCoordinator._state
    lock,       \* RateLimitCoordinator._lock: the holder, then the waiters in order
    task,       \* per task: [pc, rate_limit_attempts, index_error_attempts, wait_time, wake]
    budget,     \* the sink and the clock of the behaviour, see RLBudget
    triggerTask,\* the task whose notification the recorded window comes from (0: none)
    obs         \* per task, what its last coordinator calls saw and did

rlVars == <<now, rl, lock, task, budget, triggerTask, obs>>

NoFile == [file_path |-> <<>>, task |-> <<>>, episode |-> <<>>]

\* the ids of documents_to_process in list order
RECURSIVE SortedIds(_)
SortedIds(S) ==
    IF S = {} THEN <<>>
    ELSE LET m == CHOOSE x \in S : \A y \in S : x <= y
         IN  <<m>> \o SortedIds(S \ {m})

PipelineInit ==
    /\ directory \in Directories
    /\ files = InitialFiles
    /\ store = EmptyStore
    /\ registered = {}
    /\ sinkCalls = {}
    /\ run = 0
    /\ pc = "idle"
    /\ documents = << >>
    /\ documents_in_work = << >>
    /\ all_episodes = << >>
    /\ failed_files = {}
    /\ episodes_by_file = << >>
    /\ current = NoFile
    /\ final_index = 0
    /\ success = "none"
    /\ faults = 0
    /\ history = [completed |-> {}, killedIn |-> {}, failed |-> {}, returned |-> {},
                  initialize |-> << >>, aborted |-> {}, parse_failed |-> {},
                  convert_failed |-> {}, raised |-> {}]

(***************************************************************************)
(* execute_parallel, steps 1-4: list, read, classify                       *)
(***************************************************************************)

\* the listed files of a run: input/ then work/
ListedFiles ==
    list_supported_files(files, input_directory(directory))
        \cup list_supported_files(files, work_directory(directory))

\* a document of work/ that has saved episodes goes to documents_in_work
InWork(f) ==
    /\ StrIn(WorkSegment, f.path)
    /\ has_saved_episodes(store, f.path)

StartRun ==
    /\ pc \in {"idle", "ended"}
    /\ run < MaxRuns
    /\ run' = run + 1
    /\ LET listed == ListedFiles
           to_process == {f \in listed : ~InWork(f)}
           in_work == {f \in listed : InWork(f)}
       IN  /\ documents' =
                [d \in {f.doc : f \in to_process} |->
                    LET f == CHOOSE g \in to_process : g.doc = d
                        document == from_file(f, directory)
                    IN  [file_path |-> document.file_path,
                         relative_path |-> document.relative_path,
                         st |-> "todo", episodes |-> << >>]]
           /\ documents_in_work' =
                LET ids == SortedIds({f.doc : f \in in_work})
                IN  [i \in 1..Len(ids) |->
                        (CHOOSE g \in in_work : g.doc = ids[i]).path]
           /\ IF listed = {}
              THEN pc' = "ended" /\ success' = TRUE
              ELSE pc' = "phase1" /\ success' = "none"
    /\ all_episodes' = << >>
    /\ failed_files' = {}
    /\ episodes_by_file' = << >>
    /\ current' = NoFile
    /\ final_index' = 0
    /\ history' = [history EXCEPT !.initialize = @ \o <<run + 1>>]
    /\ UNCHANGED <<rlVars, fs, call, directory, files, store, registered, sinkCalls, faults>>

\* initialize raises and the failure is logged, the run goes on
InitializeFails_RunGoesOn ==
    /\ pc \in {"idle", "ended"}
    /\ run < MaxRuns
    /\ faults < MaxFaults
    /\ run' = run + 1
    /\ faults' = faults + 1
    /\ LET to_process == {f \in ListedFiles : ~InWork(f)}
       IN  documents' =
                [d \in {f.doc : f \in to_process} |->
                    LET document ==
                            from_file(CHOOSE g \in to_process : g.doc = d, directory)
                    IN  [file_path |-> document.file_path,
                         relative_path |-> document.relative_path,
                         st |-> "todo", episodes |-> << >>]]
    /\ documents_in_work' = << >>
    /\ pc' = "phase1"
    /\ success' = "none"
    /\ all_episodes' = << >>
    /\ failed_files' = {}
    /\ episodes_by_file' = << >>
    /\ current' = NoFile
    /\ final_index' = 0
    /\ history' = [history EXCEPT !.raised = @ \cup {run + 1}, !.initialize = @ \o <<run + 1>>,
                                  !.aborted = @ \cup {run + 1}]
    /\ UNCHANGED <<rlVars, fs, call, directory, files, store, registered, sinkCalls>>

\* await self._episode_repository.initialize() raises: execute_parallel raises
\* before it has listed the files
InitializeFails ==
    /\ pc \in {"idle", "ended"}
    /\ run < MaxRuns
    /\ faults < MaxFaults
    /\ run' = run + 1
    /\ faults' = faults + 1
    /\ pc' = "ended"
    /\ success' = "raised"
    /\ documents' = << >>
    /\ documents_in_work' = << >>
    /\ all_episodes' = << >>
    /\ failed_files' = {}
    /\ episodes_by_file' = << >>
    /\ current' = NoFile
    /\ final_index' = 0
    /\ history' = [history EXCEPT !.raised = @ \cup {run + 1}, !.initialize = @ \o <<run + 1>>,
                                  !.aborted = @ \cup {run + 1}]
    /\ UNCHANGED <<rlVars, fs, call, directory, files, store, registered, sinkCalls>>

(***************************************************************************)
(* _process_single_document_with_recovery, one call per document of        *)
(* documents_to_process, run by the thread pool of phase 1                 *)
(***************************************************************************)

\* chunks[n:] of a Python list (n counted from 0)
Drop(seq, n) == SubSeq(seq, n + 1, Len(seq))

\* step 1: the chunks the call works on, saved ones first
ChunksOf(d) ==
    LET document == documents[d]
    IN  IF has_chunk_files(store, document.file_path)
        THEN LET chunks == load_chunks(store, document.file_path)
                 last_processed ==
                    LoadMetadata(store, document.file_path).last_processed_position
             IN  IF last_processed >= 0 THEN Drop(chunks, last_processed + 1)
                 ELSE chunks
        ELSE split_elements(d, document.relative_path)

\* future.result() of a finished call: an error file, or the episodes
Collect(d, episodes, error_file) ==
    /\ documents' = [documents EXCEPT ![d].st = "finished", ![d].episodes = << >>]
    /\ IF error_file
       THEN /\ failed_files' = failed_files \cup {documents[d].file_path}
            /\ UNCHANGED all_episodes
       ELSE /\ all_episodes' = all_episodes \o episodes
            /\ UNCHANGED failed_files

\* the parser raises and the path is not returned as error file
P1ParseFails_NotRecorded(d) ==
    /\ pc = "phase1"
    /\ d \in DOMAIN documents
    /\ documents[d].st = "todo"
    /\ ~has_chunk_files(store, documents[d].file_path)
    /\ faults < MaxFaults
    /\ faults' = faults + 1
    /\ Collect(d, << >>, FALSE)
    /\ history' = [history EXCEPT !.raised = @ \cup {run}, !.failed = @ \cup {<<run, d>>},
                                  !.parse_failed = @ \cup {<<run, d>>}]
    /\ UNCHANGED <<rlVars, fs, call, directory, files, store, registered, sinkCalls, run, pc,
                   documents_in_work, episodes_by_file, current, final_index, success>>

\* the parser raises: the outer handler returns the path as error file
P1ParseFails(d) ==
    /\ pc = "phase1"
    /\ d \in DOMAIN documents
    /\ documents[d].st = "todo"
    /\ ~has_chunk_files(store, documents[d].file_path)
    /\ faults < MaxFaults
    /\ faults' = faults + 1
    /\ Collect(d, << >>, TRUE)
    /\ history' = [history EXCEPT !.raised = @ \cup {run}, !.failed = @ \cup {<<run, d>>},
                                  !.parse_failed = @ \cup {<<run, d>>}]
    /\ UNCHANGED <<rlVars, fs, call, directory, files, store, registered, sinkCalls, run, pc,
                   documents_in_work, episodes_by_file, current, final_index, success>>

\* to_episode raises at chunks[i]: the remaining chunks are saved and the
\* episodes made so far are returned next to the error file
P1ConvertFails(d, i) ==
    /\ pc = "phase1"
    /\ d \in DOMAIN documents
    /\ documents[d].st = "todo"
    /\ i \in 0..(Len(ChunksOf(d)) - 1)
    /\ faults < MaxFaults
    /\ faults' = faults + 1
    /\ LET file_path == documents[d].file_path
           remaining_chunks == Drop(ChunksOf(d), i)
           last_processed_position == IF i > 0 THEN i - 1 ELSE -1
       IN  store' = IF MkdirFails(files, file_path) THEN store
                    ELSE save_chunks(store, remaining_chunks, file_path,
                                     last_processed_position)
    /\ Collect(d, << >>, TRUE)
    /\ history' = [history EXCEPT !.raised = @ \cup {run}, !.failed = @ \cup {<<run, d>>},
                                  !.convert_failed = @ \cup {<<run, d>>}]
    /\ UNCHANGED <<rlVars, fs, call, directory, files, registered, sinkCalls, run, pc,
                   documents_in_work, episodes_by_file, current, final_index, success>>

\* steps 1-3 without an error: every chunk becomes an episode and the saved
\* chunks are deleted; with nothing to stage the call returns here
P1Convert(d) ==
    /\ pc = "phase1"
    /\ d \in DOMAIN documents
    /\ documents[d].st = "todo"
    /\ LET file_path == documents[d].file_path
           chunks == ChunksOf(d)
           episodes == [i \in 1..Len(chunks) |-> to_episode(chunks[i])]
       IN  /\ store' = IF has_chunk_files(store, file_path)
                       THEN delete_all_chunks(store, files, file_path)
                       ELSE store
           /\ IF episodes # << >> /\ StrIn(SlashInput, file_path)
              THEN /\ documents' = [documents EXCEPT ![d].st = "converted",
                                                     ![d].episodes = episodes]
                   /\ UNCHANGED <<all_episodes, failed_files>>
              ELSE Collect(d, episodes, FALSE)
    /\ UNCHANGED <<rlVars, fs, call, directory, history, files, registered, sinkCalls, run, pc,
                   documents_in_work, episodes_by_file, current, final_index,
                   success, faults>>

\* save_episodes under the document's path; an exception ends the staging and
\* the episodes are returned all the same
P1SaveEpisodes(d) ==
    /\ pc = "phase1"
    /\ d \in DOMAIN documents
    /\ documents[d].st = "converted"
    /\ IF MkdirFails(files, documents[d].file_path)
       THEN /\ Collect(d, documents[d].episodes, FALSE)
            /\ UNCHANGED store
       ELSE /\ store' = save_episodes(store, documents[d].file_path,
                                      documents[d].episodes, 0)
            /\ documents' = [documents EXCEPT ![d].st = "staged"]
            /\ UNCHANGED <<all_episodes, failed_files>>
    /\ UNCHANGED <<rlVars, fs, call, directory, history, files, registered, sinkCalls, run, pc,
                   documents_in_work, episodes_by_file, current, final_index,
                   success, faults>>

\* move_file to base_directory.replace("/input", "/work"); document.file_path
\* becomes the path move_file returns
P1Move(d) ==
    /\ pc = "phase1"
    /\ d \in DOMAIN documents
    /\ documents[d].st = "staged"
    /\ LET file_path == documents[d].file_path
           destination == StrReplace(directory, SlashInput, SlashWork)
       IN  IF MoveRaises(files, directory, file_path, destination)
           THEN /\ Collect(d, documents[d].episodes, FALSE)
                /\ UNCHANGED files
           ELSE /\ files' = move_file(files, directory, file_path, destination)
                /\ documents' =
                      [documents EXCEPT
                          ![d].st = "finished",
                          ![d].episodes = << >>,
                          ![d].file_path =
                              MoveDestination(files, directory, file_path, destination)]
                /\ all_episodes' = all_episodes \o documents[d].episodes
                /\ UNCHANGED failed_files
    /\ UNCHANGED <<rlVars, fs, call, directory, history, store, registered, sinkCalls, run, pc,
                   documents_in_work, episodes_by_file, current, final_index,
                   success, faults>>

(***************************************************************************)
(* Phase 2: the episodes are grouped by file and registered file by file   *)
(***************************************************************************)

\* the default of execute_parallel's register_workers
register_workers == 2

\* documents_to_process in list order, as records
DocumentList ==
    LET ids == SortedIds(DOMAIN documents)
    IN  [i \in 1..Len(ids) |-> documents[ids[i]]]

\* _extract_source_file_from_episode: the first document whose file name occurs in
\* the episode name, else the episode name up to " - "
_extract_source_file_from_episode(episode, docs) ==
    IF \E i \in 1..Len(docs) : StrIn(PathName(docs[i].file_path), episode.name)
    THEN docs[CHOOSE i \in 1..Len(docs) :
                /\ StrIn(PathName(docs[i].file_path), episode.name)
                /\ \A j \in 1..(i - 1) :
                        ~StrIn(PathName(docs[j].file_path), episode.name)].file_path
    ELSE SplitFirst(episode.name, NameSeparator)

\* episodes_by_file of _save_episodes_with_progress_tracking, in insertion order
RECURSIVE GroupByFile(_, _, _)
GroupByFile(episodes, docs, acc) ==
    IF episodes = << >> THEN acc
    ELSE LET episode == Head(episodes)
             source_file == _extract_source_file_from_episode(episode, docs)
         IN  IF \E k \in 1..Len(acc) : acc[k].file_path = source_file
             THEN LET k == CHOOSE k \in 1..Len(acc) : acc[k].file_path = source_file
                  IN  GroupByFile(Tail(episodes), docs,
                        [acc EXCEPT ![k].episodes = Append(@, episode)])
             ELSE GroupByFile(Tail(episodes), docs,
                        Append(acc, [file_path |-> source_file,
                                     episodes |-> <<episode>>, fresh |-> TRUE]))

\* load_episodes(file_path) without a range: from index 0 up to the first gap
RECURSIVE LoadFrom(_, _, _)
LoadFrom(st, file_path, idx) ==
    IF EpisodeFileExists(st, file_path, idx)
    THEN <<LoadEpisode(st, file_path, idx)>> \o LoadFrom(st, file_path, idx + 1)
    ELSE << >>

\* work_episodes_by_file: the in-progress documents whose load gave episodes
RECURSIVE WorkEpisodes(_)
WorkEpisodes(paths) ==
    IF paths = << >> THEN << >>
    ELSE LET episodes == LoadFrom(store, Head(paths), 0)
         IN  (IF episodes = << >> THEN << >>
              ELSE <<[file_path |-> Head(paths), episodes |-> episodes,
                      fresh |-> FALSE]>>)
                \o WorkEpisodes(Tail(paths))

\* the thread pool has returned every result: the in-progress files are loaded,
\* the fresh episodes are grouped
P2Begin ==
    /\ pc = "phase1"
    /\ \A d \in DOMAIN documents : documents[d].st = "finished"
    /\ pc' = "phase2"
    /\ episodes_by_file' =
            WorkEpisodes(documents_in_work)
                \o GroupByFile(all_episodes, DocumentList, << >>)
    /\ UNCHANGED <<rlVars, fs, call, directory, history, files, store, registered, sinkCalls, run, documents,
                   documents_in_work, all_episodes, failed_files, current,
                   final_index, success, faults>>

\* _save_file_episodes_with_progress up to the creation of the tasks: the episodes
\* are saved unless some are saved already, and what is on disk is what remains
P2StartFile ==
    /\ pc = "phase2"
    /\ current = NoFile
    /\ episodes_by_file # << >>
    /\ LET entry == Head(episodes_by_file)
           file_path == entry.file_path
           total_episodes == Len(entry.episodes)
           presave == ~has_saved_episodes(store, file_path)
       IN  IF presave /\ MkdirFails(files, file_path)
           THEN \* FileExistsError: the fresh save is abandoned as a whole (line 509),
                \* the save of in-progress files is not guarded
                /\ IF entry.fresh
                   THEN /\ episodes_by_file' = << >>
                        /\ UNCHANGED <<pc, success>>
                   ELSE /\ episodes_by_file' = << >>
                        /\ pc' = "ended"
                        /\ success' = "raised"
                /\ history' = [history EXCEPT !.failed =
                                    @ \cup {<<run, entry.episodes[1].doc>>}]
                /\ UNCHANGED <<store, current>>
           ELSE LET st == IF presave
                          THEN save_episodes(store, file_path, entry.episodes, 0)
                          ELSE store
                    remaining == {idx \in 0..(total_episodes - 1) :
                                     EpisodeFileExists(st, file_path, idx)}
                IN  /\ store' = st
                    /\ IF remaining = {}
                       THEN /\ episodes_by_file' = Tail(episodes_by_file)
                            /\ UNCHANGED current
                       ELSE /\ current' =
                                [file_path |-> file_path,
                                 task |-> [idx \in remaining |-> "pending"],
                                 episode |-> [idx \in remaining |->
                                                LoadEpisode(st, file_path, idx)]]
                            /\ UNCHANGED episodes_by_file
                    /\ UNCHANGED <<pc, success, history>>
    /\ UNCHANGED <<rlVars, fs, call, directory, files, registered, sinkCalls, run, documents,
                   documents_in_work, all_episodes, failed_files, final_index, faults>>

\* save_episodes raises an OSError after it has written the first n episode files:
\* the exception leaves _save_episodes_with_progress_tracking, whose caller logs it
P2SaveEpisodesFails(n) ==
    /\ pc = "phase2"
    /\ current = NoFile
    /\ episodes_by_file # << >>
    /\ faults < MaxFaults
    /\ LET entry == Head(episodes_by_file)
           file_path == entry.file_path
       IN  /\ entry.fresh
           /\ ~has_saved_episodes(store, file_path)
           /\ ~MkdirFails(files, file_path)
           /\ n \in 0..(Len(entry.episodes) - 1)
           /\ store' = IF n = 0 THEN store
                       ELSE save_episodes(store, file_path, SubSeq(entry.episodes, 1, n), 0)
           /\ history' = [history EXCEPT !.raised = @ \cup {run}, !.failed =
                               @ \cup {<<run, entry.episodes[1].doc>>}]
    /\ faults' = faults + 1
    /\ episodes_by_file' = << >>
    /\ UNCHANGED <<rlVars, fs, call, directory, files, registered, sinkCalls, run, pc, documents,
                   documents_in_work, all_episodes, failed_files, current, final_index,
                   success>>

(***************************************************************************)
(* _save_episodes_parallel_with_progress: one task per remaining episode,  *)
(* at most register_workers of them inside the semaphore                   *)
(***************************************************************************)

Tasks == DOMAIN current.task

InSemaphore == {idx \in Tasks : current.task[idx] \in {"saving", "returned"}}

\* a task enters the semaphore (tasks acquire in creation order) and calls sink.save
TaskStart(idx) ==
    /\ pc = "phase2"
    /\ current # NoFile
    /\ idx \in Tasks
    /\ current.task[idx] = "pending"
    /\ \A j \in Tasks : current.task[j] = "pending" => idx <= j
    /\ Cardinality(InSemaphore) < register_workers
    /\ current' = [current EXCEPT !.task[idx] = "saving"]
    /\ sinkCalls' = sinkCalls \cup
            {<<run, current.episode[idx].doc, current.episode[idx].pos>>}
    /\ UNCHANGED <<rlVars, fs, call, directory, history, files, store, registered, run, pc, documents,
                   documents_in_work, all_episodes, failed_files, episodes_by_file,
                   final_index, success, faults>>

\* the sink registers the episode; save has not returned yet
SinkCommit(idx) ==
    /\ pc = "phase2"
    /\ current # NoFile
    /\ idx \in Tasks
    /\ current.task[idx] = "saving"
    /\ current' = [current EXCEPT !.task[idx] = "returned"]
    /\ registered' = registered \cup
            {<<current.episode[idx].doc, current.episode[idx].pos>>}
    /\ UNCHANGED <<rlVars, fs, call, directory, history, files, store, sinkCalls, run, pc, documents,
                   documents_in_work, all_episodes, failed_files, episodes_by_file,
                   final_index, success, faults>>

\* a failure path that drops the checkpoint of the episode whose save raised
SinkRaises_DroppingCheckpoint(idx) ==
    /\ pc = "phase2"
    /\ current # NoFile
    /\ idx \in Tasks
    /\ current.task[idx] = "saving"
    /\ faults < MaxFaults
    /\ faults' = faults + 1
    /\ current' = [current EXCEPT !.task[idx] = "failed"]
    /\ store' = delete_episode_files(store, current.file_path, idx, idx)
    /\ history' = [history EXCEPT !.raised = @ \cup {run}, !.failed = @ \cup {<<run, current.episode[idx].doc>>}]
    /\ UNCHANGED <<rlVars, fs, call, directory, files, registered, sinkCalls, run, pc,
                   documents, documents_in_work, all_episodes, failed_files,
                   episodes_by_file, final_index, success>>

\* save raises (a fatal error, or the retries are exhausted): the task ends, gather
\* keeps the exception and the error is only logged
SinkRaises(idx) ==
    /\ pc = "phase2"
    /\ current # NoFile
    /\ idx \in Tasks
    /\ current.task[idx] = "saving"
    /\ faults < MaxFaults
    /\ faults' = faults + 1
    /\ current' = [current EXCEPT !.task[idx] = "failed"]
    /\ history' = [history EXCEPT !.raised = @ \cup {run}, !.failed = @ \cup {<<run, current.episode[idx].doc>>}]
    /\ UNCHANGED <<rlVars, fs, call, directory, files, store, registered, sinkCalls, run, pc,
                   documents, documents_in_work, all_episodes, failed_files,
                   episodes_by_file, final_index, success>>

\* the task deletes its episode file and leaves the file of work/ where it is
TaskComplete_NoCompletionMove(idx) ==
    /\ pc = "phase2"
    /\ current # NoFile
    /\ idx \in Tasks
    /\ current.task[idx] = "returned"
    /\ current' = [current EXCEPT !.task[idx] = "done"]
    /\ store' = delete_episode_files(store, current.file_path, idx, idx)
    /\ history' = [history EXCEPT !.completed = @ \cup
            {<<run, current.episode[idx].doc, current.episode[idx].pos>>}]
    /\ UNCHANGED <<rlVars, fs, call, directory, files, registered, sinkCalls, run, pc, documents,
                   documents_in_work, all_episodes, failed_files, episodes_by_file,
                   final_index, success, faults>>

\* _save_single_episode_with_progress after save has returned: the episode file is
\* deleted and, when no episode file is left, a file of work/ is moved to done/
TaskComplete(idx) ==
    /\ pc = "phase2"
    /\ current # NoFile
    /\ idx \in Tasks
    /\ current.task[idx] = "returned"
    /\ current' = [current EXCEPT !.task[idx] = "done"]
    /\ LET file_path == current.file_path
           st == delete_episode_files(store, file_path, idx, idx)
           done_dir == PathParent(StrReplace(file_path, WorkSegment, DoneSegment))
       IN  /\ store' = st
           /\ IF /\ ~has_saved_episodes(st, file_path)
                 /\ StrIn(WorkSegment, file_path)
                 /\ ~MoveRaises(files, directory, file_path, done_dir)
              THEN files' = move_file(files, directory, file_path, done_dir)
              ELSE UNCHANGED files
    /\ history' = [history EXCEPT !.completed = @ \cup
            {<<run, current.episode[idx].doc, current.episode[idx].pos>>}]
    /\ UNCHANGED <<rlVars, fs, call, directory, registered, sinkCalls, run, pc, documents,
                   documents_in_work, all_episodes, failed_files, episodes_by_file,
                   final_index, success, faults>>

\* gather has every result
P2FileEnd ==
    /\ pc = "phase2"
    /\ current # NoFile
    /\ \A idx \in Tasks : current.task[idx] \in {"done", "failed"}
    /\ current' = NoFile
    /\ episodes_by_file' = Tail(episodes_by_file)
    /\ UNCHANGED <<rlVars, fs, call, directory, history, files, store, registered, sinkCalls, run, pc,
                   documents, documents_in_work, all_episodes, failed_files,
                   final_index, success, faults>>

(***************************************************************************)
(* execute_parallel, step 6 and the result                                 *)
(***************************************************************************)

P2End ==
    /\ pc = "phase2"
    /\ current = NoFile
    /\ episodes_by_file = << >>
    /\ pc' = "final"
    /\ final_index' = 1
    /\ UNCHANGED <<rlVars, fs, call, directory, history, files, store, registered, sinkCalls, run, documents,
                   documents_in_work, all_episodes, failed_files, episodes_by_file,
                   current, success, faults>>

\* one round of the loop over documents_to_process
FinalCheck ==
    /\ pc = "final"
    /\ final_index <= Len(DocumentList)
    /\ final_index' = final_index + 1
    /\ LET doc == DocumentList[final_index]
           has_chunks == has_chunk_files(store, doc.file_path)
           has_remaining_episodes == has_saved_episodes(store, doc.file_path)
       IN  IF /\ doc.file_path \notin failed_files
              /\ ~StrIn(DoneSegment, doc.file_path)
              /\ ~has_chunks
              /\ ~has_remaining_episodes
              /\ StrIn(InputSegment, doc.file_path)
              /\ ~MoveRaises(files, directory, doc.file_path,
                             done_directory(directory))
           THEN files' = move_file(files, directory, doc.file_path,
                                   done_directory(directory))
           ELSE UNCHANGED files
    /\ UNCHANGED <<rlVars, fs, call, directory, history, store, registered, sinkCalls, run, pc, documents,
                   documents_in_work, all_episodes, failed_files, episodes_by_file,
                   current, success, faults>>

\* what a process holds in memory is gone when it ends
Forget ==
    /\ documents' = << >>
    /\ documents_in_work' = << >>
    /\ all_episodes' = << >>
    /\ failed_files' = {}
    /\ episodes_by_file' = << >>
    /\ current' = NoFile
    /\ final_index' = 0

\* RegisterResult counts the failures of the earlier runs too
RunEnd_EarlierFailuresCount ==
    /\ pc = "final"
    /\ final_index > Len(DocumentList)
    /\ pc' = "ended"
    /\ success' = (failed_files = {} /\ history.failed = {})
    /\ history' = [history EXCEPT !.returned = @ \cup {run}]
    /\ Forget
    /\ UNCHANGED <<rlVars, fs, call, directory, files, store, registered, sinkCalls, run, faults>>

\* RegisterResult: success = no failed file
RunEnd ==
    /\ pc = "final"
    /\ final_index > Len(DocumentList)
    /\ pc' = "ended"
    /\ success' = (failed_files = {})
    /\ history' = [history EXCEPT !.returned = @ \cup {run}]
    /\ Forget
    /\ UNCHANGED <<rlVars, fs, call, directory, files, store, registered, sinkCalls, run, faults>>

\* the process is killed; the disk and the sink stay as they are
Kill ==
    /\ pc \in {"phase1", "phase2", "final"}
    /\ run < MaxRuns
    /\ Cardinality(history.killedIn) < MaxKills
    /\ pc' = "ended"
    /\ success' = "killed"
    /\ history' = [history EXCEPT !.killedIn = @ \cup {<<run, pc>>}]
    /\ Forget
    /\ UNCHANGED <<rlVars, fs, call, directory, files, store, registered, sinkCalls, run, faults>>

PipelineNext ==
    \/ StartRun
    \/ InitializeFails
    \/ \E d \in DocIds : P1ParseFails(d)
    \/ \E d \in DocIds, i \in 0..(NumChunks - 1) : P1ConvertFails(d, i)
    \/ \E d \in DocIds : P1Convert(d)
    \/ \E d \in DocIds : P1SaveEpisodes(d)
    \/ \E d \in DocIds : P1Move(d)
    \/ P2Begin
    \/ P2StartFile
    \/ \E n \in 0..(NumChunks - 1) : P2SaveEpisodesFails(n)
    \/ \E idx \in 0..(NumChunks - 1) : TaskStart(idx)
    \/ \E idx \in 0..(NumChunks - 1) : SinkCommit(idx)
    \/ \E idx \in 0..(NumChunks - 1) : SinkRaises(idx)
    \/ \E idx \in 0..(NumChunks - 1) : TaskComplete(idx)
    \/ P2FileEnd
    \/ P2End
    \/ FinalCheck
    \/ RunEnd
    \/ Kill

(***************************************************************************)
(* RateLimitCoordinator and GraphitiEpisodeRepository.save.                *)
(*                                                                         *)
(* Every save call is a task of the one event loop.  A task runs without   *)
(* interruption from one await to the next, so each action below is the    *)
(* code between two suspension points.  Time is an integer clock; it       *)
(* advances only when no task can run, and a sleeping task wakes at the    *)
(* instant its sleep ends.                                                 *)
(***************************************************************************)

\* the number of tasks that call save concurrently
NumTasks == 3
\* the last instant of the clock
MaxTime == 3
\* the number of RateLimitError answers of the sink in a behaviour
MaxRateLimits == 3
\* the number of IndexError answers of the sink in a behaviour
MaxIndexErrors == 1
\* the longest wait time a RateLimitError asks for
MaxWait == 2
\* the same for the behaviours of SpecSave: the sink answers with enough errors for
\* one call to use up both of its retry budgets and the clock runs long enough for
\* the waits
SaveCalls == 3
SaveRateLimits == 4
SaveIndexErrors == 4
SaveWait == 1
SaveTime == 10
\* the same for the behaviours of FairSave: more calls than the semaphore has permits
LiveCalls == 4
LivePermits == 3
LiveRateLimits == 2
LiveIndexErrors == 1
LiveTime == 3

RLTasks == 1..(IF NumTasks >= LiveCalls THEN NumTasks ELSE LiveCalls)
WaitTimes == 1..MaxWait

\* RateLimitRetryHandler.max_retries and default_wait_time
max_retries == 3

\* threading.current_thread().ident: every task runs on the event loop's thread
thread_id(t) == 1

\* wait_until = None
None == -1

\* RateLimitState()
RateLimitState ==
    [is_waiting |-> FALSE, wait_until |-> None, wait_time |-> 0,
     affected_threads |-> 0, trigger_thread_id |-> None]

\* self._state.is_waiting and self._state.wait_until
WindowRecorded(state) == state.is_waiting /\ state.wait_until # None

\* a notify_rate_limit that records every notification, whatever is recorded
notify_rate_limit_Overwrite(state, tid, wait_time, t_now) ==
    [is_waiting |-> TRUE, wait_until |-> t_now + wait_time,
     wait_time |-> wait_time, affected_threads |-> 1, trigger_thread_id |-> tid]

\* notify_rate_limit, the body under the lock
notify_rate_limit(state, tid, wait_time, t_now) ==
    LET new_wait_until == t_now + wait_time
    IN  IF \/ ~state.is_waiting
           \/ state.wait_until = None
           \/ new_wait_until > state.wait_until
        THEN [is_waiting |-> TRUE, wait_until |-> new_wait_until,
              wait_time |-> wait_time, affected_threads |-> 1,
              trigger_thread_id |-> tid]
        ELSE state

\* the lock is released by its holder; the next waiter holds it
Release(t) == IF lock # << >> /\ Head(lock) = t THEN Tail(lock) ELSE lock

Holds(t) == lock # << >> /\ Head(lock) = t

\* a save call: its position, the two counters of save, the wait time and the end of
\* its sleep, and what it has done so far: the add_episode calls it has made and the
\* notify/wait cycles it has completed
IdleTask ==
    [pc |-> "idle", rate_limit_attempts |-> 0, index_error_attempts |-> 0,
     wait_time |-> 0, wake |-> 0, attempts |-> 0, waits |-> 0, raised |-> "none"]

\* the call of task tk has ended: what it did is kept, with the error it raised
Raised(tk, error) ==
    [IdleTask EXCEPT !.pc = "raised", !.attempts = tk.attempts, !.waits = tk.waits,
                     !.raised = error]
Returned(tk) ==
    [IdleTask EXCEPT !.pc = "returned", !.attempts = tk.attempts, !.waits = tk.waits]

\* one retry fewer
rate_limit_may_retry_OneFewer(tk) == tk.rate_limit_attempts + 1 < max_retries

\* rate_limit_attempts < self.retry_handler.max_retries
rate_limit_may_retry(tk) == tk.rate_limit_attempts < max_retries

\* one budget of retries for both errors
index_error_may_retry_Shared(tk) ==
    tk.index_error_attempts + tk.rate_limit_attempts < max_retries

\* index_error_attempts < self.retry_handler.max_retries
index_error_may_retry(tk) == tk.index_error_attempts < max_retries

\* a wait that grows by one second a retry
backoff_wait_Linear(tk) == tk.index_error_attempts + 1

\* wait_time = 2**index_error_attempts
backoff_wait(tk) == 2 ^ tk.index_error_attempts

\* the sink and the clock of a behaviour: the error answers given so far, how many
\* the sink gives at most, the longest wait time it asks for, the last instant of the
\* clock, the save calls made and the permits of the phase-2 semaphore, whether the
\* calls are made together (one gather) or at any time, whether the sink answers
\* within the second, and whether it answers with an error only as long as the wait
\* the error causes ends by the last instant
RLBudget ==
    [rate_limits |-> 0, index_errors |-> 0,
     max_rate_limits |-> MaxRateLimits, max_index_errors |-> MaxIndexErrors,
     max_wait |-> MaxWait, max_time |-> MaxTime,
     calls |-> NumTasks, permits |-> NumTasks, at_once |-> FALSE, prompt |-> FALSE,
     within_time |-> FALSE]

\* few save calls, a sink that can answer with every error a call retries on
SaveBudget ==
    [rate_limits |-> 0, index_errors |-> 0,
     max_rate_limits |-> SaveRateLimits, max_index_errors |-> SaveIndexErrors,
     max_wait |-> SaveWait, max_time |-> SaveTime,
     calls |-> SaveCalls, permits |-> SaveCalls, at_once |-> TRUE, prompt |-> TRUE,
     within_time |-> TRUE]

\* more save calls than the semaphore has permits, a sink that takes its time
LiveBudget ==
    [rate_limits |-> 0, index_errors |-> 0,
     max_rate_limits |-> LiveRateLimits, max_index_errors |-> LiveIndexErrors,
     max_wait |-> SaveWait, max_time |-> LiveTime,
     calls |-> LiveCalls, permits |-> LivePermits, at_once |-> TRUE, prompt |-> FALSE,
     within_time |-> TRUE]

Budgets == {RLBudget, SaveBudget, LiveBudget}

\* what a task's last check_and_wait_if_needed and notify/wait cycle saw:
\*   checkAt, checkWindow, checkUntil: the instant of the call and the state then
\*   checkRetAt, checkRet:             the instant and the value of the return
\*   checkReset, checkSame:            the call reset the state / left it as it was
\*   callAt, cleanCall:                the instant of the notify call, no window then
\*   notifyAt:                         the instant notify_rate_limit ran under the lock
\*   waitUntil:                        the deadline wait_for_rate_limit_completion found
\*   waitRetAt, waitReset:             the return of wait_for_rate_limit_completion
NoObs ==
    [checkAt |-> None, checkWindow |-> "none", checkUntil |-> None,
     checkRetAt |-> None, checkRet |-> FALSE, checkReset |-> FALSE,
     checkSame |-> TRUE,
     callAt |-> None, cleanCall |-> FALSE, notifyAt |-> None, waitUntil |-> None,
     waitRetAt |-> None, waitReset |-> FALSE]

RLInit ==
    /\ now = 0
    /\ rl = RateLimitState
    /\ lock = << >>
    /\ task = [t \in RLTasks |-> IdleTask]
    /\ budget \in Budgets
    /\ triggerTask = 0
    /\ obs = [t \in RLTasks |-> NoObs]

\* A task that has the lock it asked for runs on without yielding: every other task
\* resumes only when none is in that position (one event loop, asyncio.Lock.acquire
\* does not suspend on a free lock).
NoneUnderLock ==
    \A u \in RLTasks : ~(task[u].pc \in {"check", "notify", "wait"} /\ Holds(u))

\* the tasks inside the semaphore of _save_episodes_parallel_with_progress
InSave == {u \in RLTasks : task[u].pc \notin {"idle", "returned", "raised"}}

\* the sum of the wait times of the tasks of S
RECURSIVE SumWaitTimes(_)
SumWaitTimes(S) ==
    IF S = {} THEN 0
    ELSE LET u == CHOOSE x \in S : TRUE
         IN  task[u].wait_time + SumWaitTimes(S \ {u})

\* an instant by which every wait in progress or asked for has ended: the waits of
\* the tasks that have not notified or not begun to wait yet follow one another
WaitsEndBy ==
    LET ends == {now} \cup {task[u].wake : u \in {x \in RLTasks :
                                task[x].pc \in {"check_sleep", "wait_sleep"}}}
                      \cup (IF WindowRecorded(rl) THEN {rl.wait_until} ELSE {})
        latest == CHOOSE e \in ends : \A f \in ends : f <= e
    IN  latest + SumWaitTimes({u \in RLTasks : task[u].pc \in {"notify", "wait"}})

\* a gather without a semaphore
MayBegin_Unbounded(t) ==
    /\ task[t].pc = "idle"
    /\ t <= budget.calls
    /\ \A u \in 1..(t - 1) : task[u].pc # "idle"

\* a semaphore whose permits are not given back when a call ends
MayBegin_PermitKept(t) ==
    /\ task[t].pc = "idle"
    /\ t <= budget.calls
    /\ \A u \in 1..(t - 1) : task[u].pc # "idle"
    /\ Cardinality({u \in RLTasks : task[u].pc # "idle"}) < budget.permits

\* the semaphore admits the next call
MayBegin(t) ==
    /\ task[t].pc = "idle"
    /\ t <= budget.calls
    /\ \A u \in 1..(t - 1) : task[u].pc # "idle"
    /\ Cardinality(InSave) < budget.permits

\* save is called: the task asks for the lock of check_and_wait_if_needed.  The
\* tasks are numbered in the order of their calls.
SaveBegin(t) ==
    /\ MayBegin(t)
    /\ NoneUnderLock
    /\ UNCHANGED budget
    /\ task' = [task EXCEPT ![t] = [IdleTask EXCEPT !.pc = "check"]]
    /\ lock' = Append(lock, t)
    /\ obs' = [obs EXCEPT ![t] =
                [NoObs EXCEPT
                    !.checkAt = now,
                    !.checkWindow = IF ~WindowRecorded(rl) THEN "none"
                                    ELSE IF now < rl.wait_until THEN "open"
                                    ELSE "expired",
                    !.checkUntil = rl.wait_until]]
    /\ UNCHANGED <<now, rl, triggerTask>>
    /\ UNCHANGED pipelineVars

\* check_and_wait_if_needed under the lock, up to the sleep or the return
CheckEnter(t) ==
    /\ task[t].pc = "check"
    /\ Holds(t)
    /\ IF WindowRecorded(rl) /\ now < rl.wait_until
       THEN /\ rl' = [rl EXCEPT !.affected_threads = @ + 1]
            /\ task' = [task EXCEPT ![t].pc = "check_sleep", ![t].wake = rl.wait_until]
            /\ UNCHANGED <<lock, triggerTask, obs>>
       ELSE /\ rl' = IF WindowRecorded(rl) THEN RateLimitState ELSE rl
            /\ triggerTask' = IF WindowRecorded(rl) THEN 0 ELSE triggerTask
            /\ task' = [task EXCEPT ![t].pc = "attempt", ![t].attempts = @ + 1]
            /\ lock' = Release(t)
            /\ obs' = [obs EXCEPT ![t].checkRetAt = now,
                                  ![t].checkRet = FALSE,
                                  ![t].checkReset = WindowRecorded(rl),
                                  ![t].checkSame = (rl' = rl)]
    /\ UNCHANGED <<now, budget>>
    /\ UNCHANGED pipelineVars

\* the sleep of check_and_wait_if_needed ends: the lock is released, True is returned
CheckWake(t) ==
    /\ task[t].pc = "check_sleep"
    /\ NoneUnderLock
    /\ now >= task[t].wake
    /\ task' = [task EXCEPT ![t].pc = "attempt", ![t].attempts = @ + 1]
    /\ lock' = Release(t)
    /\ obs' = [obs EXCEPT ![t].checkRetAt = now, ![t].checkRet = TRUE]
    /\ UNCHANGED <<now, rl, budget, triggerTask>>
    /\ UNCHANGED pipelineVars

\* add_episode returns: save returns
AttemptOk(t) ==
    /\ task[t].pc = "attempt"
    /\ NoneUnderLock
    /\ task' = [task EXCEPT ![t] = Returned(task[t])]
    /\ obs' = [obs EXCEPT ![t] = NoObs]
    /\ UNCHANGED <<now, rl, lock, budget, triggerTask>>
    /\ UNCHANGED pipelineVars

\* add_episode raises RateLimitError: below max_retries the task calls
\* notify_rate_limit with the wait time, else the error is raised
AttemptRateLimit(t, w) ==
    /\ task[t].pc = "attempt"
    /\ NoneUnderLock
    /\ budget.rate_limits < budget.max_rate_limits
    /\ w <= budget.max_wait
    /\ budget' = [budget EXCEPT !.rate_limits = @ + 1]
    /\ IF rate_limit_may_retry(task[t])
       THEN /\ budget.within_time => WaitsEndBy + w <= budget.max_time
            /\ task' = [task EXCEPT ![t].pc = "notify", ![t].wait_time = w]
            /\ lock' = Append(lock, t)
            /\ obs' = [obs EXCEPT ![t] = [NoObs EXCEPT
                                            !.callAt = now,
                                            !.cleanCall = ~WindowRecorded(rl)]]
       ELSE /\ task' = [task EXCEPT ![t] = Raised(task[t], "RateLimitError")]
            /\ obs' = [obs EXCEPT ![t] = NoObs]
            /\ UNCHANGED lock
    /\ UNCHANGED <<now, rl, triggerTask>>
    /\ UNCHANGED pipelineVars

\* add_episode raises IndexError("list index out of range"): below max_retries the
\* task sleeps 2**index_error_attempts, else the error is raised
AttemptIndexError(t) ==
    /\ task[t].pc = "attempt"
    /\ NoneUnderLock
    /\ budget.index_errors < budget.max_index_errors
    /\ budget' = [budget EXCEPT !.index_errors = @ + 1]
    /\ (budget.within_time /\ index_error_may_retry(task[t]))
            => now + backoff_wait(task[t]) <= budget.max_time
    /\ task' = IF index_error_may_retry(task[t])
               THEN [task EXCEPT ![t].pc = "backoff",
                                 ![t].wake = now + backoff_wait(task[t])]
               ELSE [task EXCEPT ![t] = Raised(task[t], "IndexError")]
    /\ obs' = [obs EXCEPT ![t] = NoObs]
    /\ UNCHANGED <<now, rl, lock, triggerTask>>
    /\ UNCHANGED pipelineVars

\* the backoff sleep ends
BackoffWake(t) ==
    /\ task[t].pc = "backoff"
    /\ NoneUnderLock
    /\ now >= task[t].wake
    /\ task' = [task EXCEPT ![t].pc = "attempt", ![t].index_error_attempts = @ + 1,
                            ![t].attempts = @ + 1]
    /\ UNCHANGED <<now, rl, lock, budget, triggerTask, obs>>
    /\ UNCHANGED pipelineVars

\* a save that clears the coordinator's state before it raises
AttemptFatal_ResettingState(t) ==
    /\ task[t].pc = "attempt"
    /\ NoneUnderLock
    /\ task' = [task EXCEPT ![t] = Raised(task[t], "Exception")]
    /\ obs' = [obs EXCEPT ![t] = NoObs]
    /\ rl' = RateLimitState
    /\ UNCHANGED <<now, lock, budget, triggerTask>>
    /\ UNCHANGED pipelineVars

\* add_episode raises anything else: save raises
AttemptFatal(t) ==
    /\ task[t].pc = "attempt"
    /\ NoneUnderLock
    /\ task' = [task EXCEPT ![t] = Raised(task[t], "Exception")]
    /\ obs' = [obs EXCEPT ![t] = NoObs]
    /\ UNCHANGED <<now, rl, lock, budget, triggerTask>>
    /\ UNCHANGED pipelineVars

\* notify_rate_limit under the lock; on return the task asks for the lock of
\* wait_for_rate_limit_completion
Notify(t) ==
    /\ task[t].pc = "notify"
    /\ Holds(t)
    /\ rl' = notify_rate_limit(rl, thread_id(t), task[t].wait_time, now)
    /\ triggerTask' = IF rl' # rl THEN t ELSE triggerTask
    /\ task' = [task EXCEPT ![t].pc = "wait"]
    /\ lock' = Append(Release(t), t)
    /\ obs' = [obs EXCEPT ![t].notifyAt = now]
    /\ UNCHANGED <<now, budget>>
    /\ UNCHANGED pipelineVars

\* a wait_for_rate_limit_completion that leaves the reset to others
WaitReturn_NoReset(t) ==
    /\ rl' = rl
    /\ triggerTask' = triggerTask
    /\ task' = [task EXCEPT ![t].pc = "attempt", ![t].rate_limit_attempts = @ + 1,
                            ![t].attempts = @ + 1, ![t].waits = @ + 1]
    /\ lock' = Release(t)
    /\ obs' = [obs EXCEPT ![t].waitRetAt = now,
                          ![t].waitReset = FALSE,
                          ![t].waitUntil = IF task[t].pc = "wait" THEN rl.wait_until
                                           ELSE @]

\* wait_for_rate_limit_completion after the wait: the reset by the trigger, the
\* release of the lock, and back in save the next attempt
WaitReturn(t) ==
    /\ rl' = IF WindowRecorded(rl) /\ rl.trigger_thread_id = thread_id(t)
             THEN RateLimitState ELSE rl
    /\ triggerTask' = IF rl' # rl THEN 0 ELSE triggerTask
    /\ task' = [task EXCEPT ![t].pc = "attempt", ![t].rate_limit_attempts = @ + 1,
                            ![t].attempts = @ + 1, ![t].waits = @ + 1]
    /\ lock' = Release(t)
    /\ obs' = [obs EXCEPT ![t].waitRetAt = now,
                          ![t].waitReset = (rl' # rl),
                          ![t].waitUntil = IF task[t].pc = "wait" THEN rl.wait_until
                                           ELSE @]

\* wait_for_rate_limit_completion under the lock, up to the sleep or the return
WaitEnter(t) ==
    /\ task[t].pc = "wait"
    /\ Holds(t)
    /\ IF WindowRecorded(rl) /\ now < rl.wait_until
       THEN /\ task' = [task EXCEPT ![t].pc = "wait_sleep", ![t].wake = rl.wait_until]
            /\ obs' = [obs EXCEPT ![t].waitUntil = rl.wait_until]
            /\ UNCHANGED <<rl, lock, triggerTask>>
       ELSE WaitReturn(t)
    /\ UNCHANGED <<now, budget>>
    /\ UNCHANGED pipelineVars

\* the sleep of wait_for_rate_limit_completion ends
WaitWake(t) ==
    /\ task[t].pc = "wait_sleep"
    /\ NoneUnderLock
    /\ now >= task[t].wake
    /\ WaitReturn(t)
    /\ UNCHANGED <<now, budget>>
    /\ UNCHANGED pipelineVars

\* a task can run now: it holds the lock it asked for, its sleep has ended, or it
\* was created with the others and the semaphore has a permit for it
Runnable(t) ==
    \/ task[t].pc \in {"check", "notify", "wait"} /\ Holds(t)
    \/ task[t].pc \in {"check_sleep", "wait_sleep", "backoff"} /\ now >= task[t].wake
    \/ budget.at_once /\ MayBegin(t)
    \/ budget.prompt /\ task[t].pc = "attempt"

\* a second passes
Tick ==
    /\ now < budget.max_time
    /\ \A t \in RLTasks : ~Runnable(t)
    /\ now' = now + 1
    /\ UNCHANGED <<rl, lock, task, budget, triggerTask, obs>>
    /\ UNCHANGED pipelineVars

RLNext ==
    \/ \E t \in RLTasks : SaveBegin(t)
    \/ \E t \in RLTasks : CheckEnter(t)
    \/ \E t \in RLTasks : CheckWake(t)
    \/ \E t \in RLTasks : AttemptOk(t)
    \/ \E t \in RLTasks, w \in WaitTimes : AttemptRateLimit(t, w)
    \/ \E t \in RLTasks : AttemptIndexError(t)
    \/ \E t \in RLTasks : BackoffWake(t)
    \/ \E t \in RLTasks : AttemptFatal(t)
    \/ \E t \in RLTasks : Notify(t)
    \/ \E t \in RLTasks : WaitEnter(t)
    \/ \E t \in RLTasks : WaitWake(t)
    \/ Tick

(***************************************************************************)
(* FileSystemDocumentReader on a tree with its directories.  fs is the     *)
(* reader's _base_directory, the regular files and the directories of the  *)
(* tree, the clock in seconds, the number of files that arrived, and the   *)
(* last call of move_file: [source_path, destination_directory, returned]. *)
(***************************************************************************)

\* the number of files that arrive in the pending directory during a behaviour
MaxArrivals == 2
\* the seconds the clock of the tree runs through
MaxClock == 1

\* datetime.now().strftime("%Y%m%d_%H%M%S"): one token per second
strftime(clock) == <<Digit(clock)>>

\* the directories above an absolute path, below "/"
Ancestors(p) == {SubSeq(p, 1, i - 1) : i \in {j \in 2..Len(p) : p[j] = "/"}}

\* any(path.iterdir())
HasEntries(fls, dirs, path) ==
    \/ \E f \in fls : IsBelow(f.path, path)
    \/ \E d \in dirs : IsBelow(d, path)

\* _cleanup_empty_directories(path): the directories that are left.
\* is_relative_to compares the paths as written.
RECURSIVE _cleanup_empty_directories(_, _, _, _)
_cleanup_empty_directories(fls, dirs, base_directory, path) ==
    IF path \notin dirs THEN dirs
    ELSE IF ~(\/ path = PathParent(base_directory)
              \/ IsBelow(path, PathParent(base_directory))) THEN dirs
    ELSE IF path = base_directory THEN dirs
    ELSE IF HasEntries(fls, dirs, path) THEN dirs
    ELSE _cleanup_empty_directories(fls, dirs \ {path}, base_directory,
                                    PathParent(path))

\* move_file(source_path, destination_directory) of a file that exists: mkdir of
\* the destination's parents, shutil.move, _cleanup_empty_directories
MoveFile(source_path, destination_directory) ==
    /\ fs.base # << >>
    /\ Exists(fs.file, source_path)
    /\ LET destination_path ==
               MoveDestinationAt(fs.file, fs.base, source_path,
                                 destination_directory, strftime(fs.clock))
           dest  == Absolute(destination_path)
           after == shutil_move(fs.file, source_path, dest)
       IN  fs' = [fs EXCEPT
                    !.file = after,
                    !.dir = _cleanup_empty_directories(
                                after, fs.dir \cup Ancestors(dest), fs.base,
                                PathParent(source_path)),
                    !.moved = [source_path |-> source_path,
                               destination_directory |-> destination_directory,
                               returned |-> destination_path]]
    /\ UNCHANGED <<runVars, rlVars, call>>

\* the moves of the file lifecycle: pending to in progress, in progress to done
Lifecycle ==
    {<<f.path, work_directory(fs.base)>> :
        f \in list_supported_files(fs.file, input_directory(fs.base))}
    \cup {<<f.path, done_directory(fs.base)>> :
        f \in list_supported_files(fs.file, work_directory(fs.base))}

\* a new document arrives under the name of one that was there before
Arrive(p) ==
    /\ fs.base # << >>
    /\ fs.arrived < MaxArrivals
    /\ ~Exists(fs.file, p)
    /\ fs' = [fs EXCEPT
                 !.file = @ \cup {[path |-> p,
                                   doc |-> Cardinality(DocIds) + fs.arrived + 1]},
                 !.dir = @ \cup Ancestors(p),
                 !.arrived = @ + 1]
    /\ UNCHANGED <<runVars, rlVars, call>>

\* a second goes by
MoveTick ==
    /\ fs.base # << >>
    /\ fs.clock < MaxClock
    /\ fs' = [fs EXCEPT !.clock = @ + 1]
    /\ UNCHANGED <<runVars, rlVars, call>>

MoveNext ==
    \/ \E m \in Lifecycle : MoveFile(m[1], m[2])
    \/ \E f \in InitialFiles : Arrive(f.path)
    \/ MoveTick

(***************************************************************************)
(* Functions of the program, each called alone.  call is the function, its *)
(* arguments, whether it has returned, and what it returned.               *)
(***************************************************************************)

\* the documents of a call to _determine_optimal_workers are at most
MaxDocs == 10

\* sum(f[x] for x in S)
RECURSIVE SumOver(_, _)
SumOver(f, S) ==
    IF S = {} THEN 0
    ELSE LET x == CHOOSE y \in S : TRUE IN f[x] + SumOver(f, S \ {x})

\* min(...) and max(...) of a non-empty collection of integers
min(S) == CHOOSE x \in S : \A y \in S : x <= y
max(S) == CHOOSE x \in S : \A y \in S : y <= x

\* _determine_optimal_workers with the thresholds inclusive
_determine_optimal_workers_AtThreshold(type_counter, requested_workers, cpu_count) ==
    LET total_files == SumOver(type_counter, DOMAIN type_counter)
        image_count == SumOver(type_counter, DOMAIN type_counter \cap {"png", "jpg"})
        optimal_workers ==
            IF 2 * image_count >= total_files
            THEN min({cpu_count \div 2, total_files, 4})
            ELSE IF 10 * type_counter["pdf"] >= 7 * total_files
            THEN min({cpu_count \div 2, total_files, 6})
            ELSE min({cpu_count, total_files, requested_workers})
    IN  IF total_files = 0 THEN 1 ELSE max({1, optimal_workers})

\* _determine_optimal_workers: type_counter is Counter(file_types).  The ratios are
\* compared as fractions: count / total > 0.5 in floating point holds exactly when
\* 2 * count > total, and count / total > 0.7 exactly when 10 * count > 7 * total.
_determine_optimal_workers(type_counter, requested_workers, cpu_count) ==
    LET total_files == SumOver(type_counter, DOMAIN type_counter)
        image_types == {"png", "jpg", "jpeg", "bmp", "tiff", "tif", "heic"}
        image_count == SumOver(type_counter, DOMAIN type_counter \cap image_types)
        pdf_count   == IF "pdf" \in DOMAIN type_counter THEN type_counter["pdf"] ELSE 0
        optimal_workers ==
            IF 2 * image_count > total_files
            THEN min({cpu_count \div 2, total_files, 4})
            ELSE IF 10 * pdf_count > 7 * total_files
            THEN min({cpu_count \div 2, total_files, 6})
            ELSE min({cpu_count, total_files, requested_workers})
    IN  IF total_files = 0 THEN 1 ELSE max({1, optimal_workers})

\* RateLimitRetryHandler(default_wait_time=121)
default_wait_time == 121

\* int() of a string of digits
RECURSIVE DigitsValue(_)
DigitsValue(d) ==
    IF d = << >> THEN 0
    ELSE 10 * DigitsValue(SubSeq(d, 1, Len(d) - 1))
            + (CHOOSE i \in 0..9 : Digit(i) = d[Len(d)])

\* int(float(s)) of the header values: the digits before the point of a decimal
\* number, nothing (ValueError) for anything else
int_float(s) ==
    LET dot   == IF \E i \in 1..Len(s) : s[i] = "."
                 THEN CHOOSE i \in 1..Len(s) :
                          s[i] = "." /\ \A j \in 1..(i - 1) : s[j] # "."
                 ELSE Len(s) + 1
        whole == SubSeq(s, 1, dot - 1)
        frac  == SubSeq(s, dot + 1, Len(s))
        IsNumber(d) ==
            d # << >> /\ \A i \in 1..Len(d) : \E k \in 0..9 : d[i] = Digit(k)
    IN  IF IsNumber(whole) /\ (dot > Len(s) \/ IsNumber(frac))
        THEN {DigitsValue(whole)}
        ELSE {}

\* _parse_time_string: re.search takes the leftmost match, \d+ all the digits there
\* are; nothing (None) when the total is 0
_parse_time_string(time_str) ==
    LET n == Len(time_str)
        DigitAt(i) == i \in 1..n /\ \E k \in 0..9 : time_str[i] = Digit(k)
        CharIs(i, c) == i \in 1..n /\ time_str[i] = c
        DigitsEnd(i) ==
            CHOOSE j \in i..n : (\A k \in i..j : DigitAt(k)) /\ ~DigitAt(j + 1)
        GroupValue(i) == DigitsValue(SubSeq(time_str, i, DigitsEnd(i)))
        \* (\d+)m
        minute_matches == {i \in 1..n : DigitAt(i) /\ CharIs(DigitsEnd(i) + 1, "m")}
        \* (\d+(?:\.\d+)?)s
        second_matches ==
            {i \in 1..n :
                /\ DigitAt(i)
                /\ \/ CharIs(DigitsEnd(i) + 1, "s")
                   \/ /\ CharIs(DigitsEnd(i) + 1, ".")
                      /\ DigitAt(DigitsEnd(i) + 2)
                      /\ CharIs(DigitsEnd(DigitsEnd(i) + 2) + 1, "s")}
        total_seconds ==
            (IF minute_matches = {} THEN 0 ELSE GroupValue(min(minute_matches)) * 60)
            + (IF second_matches = {} THEN 0 ELSE GroupValue(min(second_matches)))
    IN  IF total_seconds > 0 THEN {total_seconds} ELSE {}

\* extract_retry_after_time: nothing (None) or the wait in seconds
extract_retry_after_time(headers) ==
    LET wait_times ==
            (IF headers.retry_after # << >> THEN int_float(headers.retry_after)
             ELSE {})
            \cup (IF headers.reset_tokens # << >>
                  THEN _parse_time_string(headers.reset_tokens)
                  ELSE {})
    IN  IF wait_times # {} THEN {max(wait_times) + 1} ELSE {}

\* the wait_time _save_with_retry announces: retry_after if retry_after else the
\* default
AnnouncedWait(headers) ==
    LET retry_after == extract_retry_after_time(headers)
    IN  IF retry_after # {} /\ retry_after # {0}
        THEN CHOOSE w \in retry_after : TRUE
        ELSE default_wait_time

\* the calls of a behaviour, before they are made: load_episodes finds the episodes
\* of a document saved and those of some indices deleted again,
\* _save_episodes_with_progress_tracking gets the episodes of two documents that
\* phase 1 has moved to work/, in the order the thread pool returned them.  The
\* documents of _determine_optimal_workers have the
\* file_type that Document.from_file gives them, in lower case; the header values
\* are those of a rate limit error, the empty string for a header that is not there.
Calls ==
    LET FileTypes         == {"png", "jpg", "pdf", "txt"}
        CpuCounts         == {1, 2, 8, 16}
        RequestedWorkers  == {0, 1, 3, 10}
        RetryAfterHeaders == {<< >>, <<"0">>, <<"2">>, <<"1", ".", "5">>, <<"x">>}
        RelativePaths ==
            {<<"c", ".", "t", "x", "t">>, <<"s", "/", "c", ".", "t", "x", "t">>,
             <<"c", "c", ".", "t", "x", "t">>, <<"s", "/", "b", ".", "t", "x", "t">>}
        MovedDocument(d, rel) ==
            [doc |-> d, file_path |-> PathJoin(InProgressDir, rel), relative_path |-> rel]
        EpisodesOf(d, rel) ==
            LET chunks == split_elements(d, rel)
            IN  [i \in 1..Len(chunks) |-> to_episode(chunks[i])]
        ResetHeaders ==
            {<< >>, <<"3", "s">>, <<"0", ".", "5", "s">>, <<"1", "m">>,
             <<"1", "m", "1", ".", "3", "s">>, <<"5", "m", "s">>, <<"x">>}
    IN  {[fn |-> "_determine_optimal_workers", type_counter |-> c,
          requested_workers |-> r, cpu_count |-> n, done |-> FALSE, returned |-> 0] :
            c \in {f \in [FileTypes -> 0..MaxDocs] : SumOver(f, FileTypes) <= MaxDocs},
            r \in RequestedWorkers, n \in CpuCounts}
        \cup
        {[fn |-> "extract_retry_after_time",
          headers |-> [retry_after |-> a, reset_tokens |-> b],
          done |-> FALSE, returned |-> 0] :
            a \in RetryAfterHeaders, b \in ResetHeaders}
        \cup
        {[fn |-> "load_episodes", file_path |-> FileC,
          episodes |-> LET chunks == split_elements(1, PathName(FileC))
                       IN  [i \in 1..Len(chunks) |-> to_episode(chunks[i])],
          deleted |-> gone, done |-> FALSE, returned |-> << >>] :
            gone \in SUBSET (0..(NumChunks - 1))}
        \cup
        {[fn |-> "_save_episodes_with_progress_tracking",
          documents |-> <<MovedDocument(1, p[1]), MovedDocument(2, p[2])>>,
          all_episodes |-> IF first = 1 THEN EpisodesOf(1, p[1]) \o EpisodesOf(2, p[2])
                           ELSE EpisodesOf(2, p[2]) \o EpisodesOf(1, p[1]),
          done |-> FALSE, returned |-> << >>] :
            p \in {q \in RelativePaths \X RelativePaths : q[1] # q[2]}, first \in {1, 2}}

Decide ==
    /\ call.fn = "_determine_optimal_workers"
    /\ ~call.done
    /\ call' = [call EXCEPT
                   !.done = TRUE,
                   !.returned = _determine_optimal_workers(
                       call.type_counter, call.requested_workers, call.cpu_count)]
    /\ UNCHANGED <<runVars, rlVars, fs>>

\* load_episodes(file_path), no range given, on the store that save_episodes and
\* delete_episode_files have left
LoadEpisodes ==
    /\ call.fn = "load_episodes"
    /\ ~call.done
    /\ LET RECURSIVE Deleted(_, _)
           Deleted(st, indices) ==
               IF indices = {} THEN st
               ELSE LET i == CHOOSE x \in indices : TRUE
                    IN  Deleted(delete_episode_files(st, call.file_path, i, i),
                                indices \ {i})
           saved == save_episodes(EmptyStore, call.file_path, call.episodes, 0)
       IN  call' = [call EXCEPT
                      !.done = TRUE,
                      !.returned = LoadFrom(Deleted(saved, call.deleted),
                                            call.file_path, 0)]
    /\ UNCHANGED <<runVars, rlVars, fs>>

\* _save_episodes_with_progress_tracking up to the loop over the files: the
\* episodes grouped by the file they are attributed to
GroupEpisodes ==
    /\ call.fn = "_save_episodes_with_progress_tracking"
    /\ ~call.done
    /\ call' = [call EXCEPT
                   !.done = TRUE,
                   !.returned = GroupByFile(call.all_episodes, call.documents, << >>)]
    /\ UNCHANGED <<runVars, rlVars, fs>>

OnRateLimitError ==
    /\ call.fn = "extract_retry_after_time"
    /\ ~call.done
    /\ call' = [call EXCEPT !.done = TRUE, !.returned = AnnouncedWait(call.headers)]
    /\ UNCHANGED <<runVars, rlVars, fs>>

\* no reader at work on a tree of its own, no function called
AuxInit ==
    /\ fs = [base |-> << >>, file |-> {}, dir |-> {}, clock |-> 0, arrived |-> 0,
             moved |-> << >>]
    /\ call = [fn |-> "none"]

vars == <<pipelineVars, rlVars>>

Init == PipelineInit /\ RLInit /\ budget = RLBudget /\ AuxInit

Next == PipelineNext

\* the ingest pipeline, the coordinator at rest
Spec == Init /\ [][Next]_vars

\* a run that has begun ends: it returns, raises or is killed
RunEnds == pc \in {"phase1", "phase2", "final"} /\ pc' = "ended"

\* the thread pool and the event loop run every call and every task they hold and
\* the sink answers every call.  A run has a next step in each of its states and
\* finitely many steps, so that fairness amounts to this: a run does not stay in
\* one of its phases for ever
FairRun == Init /\ [][Next]_vars /\ WF_pc(RunEnds)

\* the tree named by its input directory, the pipeline at rest
InitRL == Init /\ directory = DirInput

\* the save calls and the coordinator, the pipeline at rest
SpecRL == InitRL /\ [][RLNext]_vars

\* save calls retried to the end of their budgets
InitSave ==
    PipelineInit /\ directory = DirInput /\ RLInit /\ budget = SaveBudget /\ AuxInit

SpecSave == InitSave /\ [][RLNext]_vars

\* what task t can do next, the answer of the sink to its call included
TaskStep(t) ==
    \/ SaveBegin(t)
    \/ CheckEnter(t)
    \/ CheckWake(t)
    \/ AttemptOk(t)
    \/ \E w \in WaitTimes : AttemptRateLimit(t, w)
    \/ AttemptIndexError(t)
    \/ BackoffWake(t)
    \/ AttemptFatal(t)
    \/ Notify(t)
    \/ WaitEnter(t)
    \/ WaitWake(t)

\* the event loop runs every task that is ready, the sink answers every call and
\* time goes on
InitLive ==
    PipelineInit /\ directory = DirInput /\ RLInit /\ budget = LiveBudget /\ AuxInit

\* the reader moves files in a tree: the run's directory is its base, the pending,
\* in progress and done directories exist and the documents are pending; the
\* pipeline and the coordinator at rest
InitMove ==
    /\ PipelineInit /\ directory = DirInput /\ RLInit /\ budget = RLBudget
    /\ call = [fn |-> "none"]
    /\ fs \in {[base |-> b, file |-> InitialFiles,
                 dir |-> {PendingDir, InProgressDir, DoneDir}
                            \cup UNION {Ancestors(f.path) : f \in InitialFiles},
                 clock |-> 0, arrived |-> 0, moved |-> << >>] : b \in Directories}

SpecMove == InitMove /\ [][MoveNext]_vars

\* one call of a function, everything else at rest
InitFn ==
    /\ PipelineInit /\ directory = DirInput /\ RLInit /\ budget = RLBudget
    /\ fs = [base |-> << >>, file |-> {}, dir |-> {}, clock |-> 0, arrived |-> 0,
             moved |-> << >>]
    /\ call \in Calls

SpecFn == InitFn /\ [][Decide \/ OnRateLimitError \/ LoadEpisodes \/ GroupEpisodes]_vars

FairSave ==
    /\ InitLive
    /\ [][RLNext]_vars
    /\ \A t \in RLTasks : WF_vars(TaskStep(t))
    /\ WF_vars(Tick)

(***************************************************************************)
(* Properties of the staging pipeline                                      *)
(***************************************************************************)

\* the document's source file lies in the directory
InPlace(d, dir) == \E f \in files : f.doc = d /\ IsBelow(f.path, dir)

\* an episode checkpoint of the unit is on disk, in whatever staging directory
EpisodeOnDisk(u) == \E e \in store.ep : e.ep.doc = u[1] /\ e.ep.pos = u[2]

\* a unit checkpoint of the unit is on disk
ChunkOnDisk(u) == \E c \in store.chunk : c.chunk.doc = u[1] /\ c.chunk.pos = u[2]

\* the units whose registration a task has completed (sink.save returned and the
\* task went on to delete the checkpoint)
Completed == {<<c[2], c[3]>> : c \in history.completed}

\* C1: no unit is silently lost.  Every unit of every document is registered with the
\* sink, or has a checkpoint on disk, or has its source file in pending or in
\* progress; and a file lies in done only if all its units are registered.
C1_NoUnitSilentlyLost ==
    \A u \in Units :
        /\ \/ u \in registered
           \/ EpisodeOnDisk(u)
           \/ ChunkOnDisk(u)
           \/ InPlace(u[1], PendingDir)
           \/ InPlace(u[1], InProgressDir)
        /\ InPlace(u[1], DoneDir) => u \in registered

\* C2: crash recovery in phase 2.  When the first run is killed in phase 2 after some
\* of the episode checkpoints were deleted and nothing else fails, the next run, once
\* it has returned, has called the sink for exactly the episodes whose registration
\* was not completed before the kill, and every file is in done.
C2_CrashRecoveryPhase2 ==
    (/\ run = 2
     /\ pc = "ended"
     /\ history.killedIn = {<<1, "phase2">>}
     /\ faults = 0)
    => \A u \in Units :
        /\ <<2, u[1], u[2]>> \in sinkCalls <=> <<1, u[1], u[2]>> \notin history.completed
        /\ InPlace(u[1], DoneDir)

\* a task leaves "pending": its sink.save call starts
AttemptStarts(idx) ==
    /\ current # NoFile
    /\ current' # NoFile
    /\ idx \in Tasks
    /\ current.task[idx] = "pending"
    /\ current'.task[idx] = "saving"

\* C3: checkpoint before attempt.  When the sink.save call for an episode starts, the
\* episode's checkpoint file is on disk under the path the task works on and holds
\* that episode; and no step of the registration phase (a kill included) removes the
\* checkpoint of an episode that the sink has not registered.
C3_CheckpointBeforeAttempt ==
    [][/\ \A idx \in 0..(NumChunks - 1) :
            AttemptStarts(idx) =>
                /\ EpisodeFileExists(store, current.file_path, idx)
                /\ LoadEpisode(store, current.file_path, idx) = current.episode[idx]
       /\ pc = "phase2" =>
            \A e \in store.ep :
                <<e.ep.doc, e.ep.pos>> \notin registered' => e \in store'.ep]_vars

\* C3 witness: a sink.save call had started for an episode when the process was
\* killed; the episode is not registered and its checkpoint is on disk
C3_Witness ==
    \E c \in sinkCalls :
        /\ <<c[1], "phase2">> \in history.killedIn
        /\ <<c[2], c[3]>> \notin registered
        /\ EpisodeOnDisk(<<c[2], c[3]>>)

\* the episode checkpoint files that a step removes from the disk
DeletedEpisodeFiles ==
    {e \in store.ep : \A f \in store'.ep : f.dir # e.dir \/ f.idx # e.idx}

OnDisk(d) == {u[2] : u \in {v \in Units : v[1] = d /\ EpisodeOnDisk(v)}}

\* the positions of a document's episodes whose registration is not completed
Unprocessed(d) == {u[2] : u \in {v \in Units : v[1] = d /\ v \notin Completed}}

\* C5: the staging invariant.  For every document whose episodes have been staged,
\* the episode checkpoints on disk are exactly the episodes whose registration has
\* not been completed.
C5_StagingInvariant ==
    \A d \in DocIds :
        (OnDisk(d) # {} \/ Unprocessed(d) # 0..(NumChunks - 1))
            => OnDisk(d) = Unprocessed(d)

(***************************************************************************)
(* Properties of the rate limit coordinator                                *)
(***************************************************************************)

\* task t's notify_rate_limit runs in this step
Notifies(t) == task[t].pc = "notify" /\ task'[t].pc = "wait"

\* C6: notify_rate_limit at time now with wait time w leaves the deadline at
\* max(recorded deadline, now + w).  A later deadline replaces deadline, wait_time and
\* trigger; an earlier one leaves all three as they are; with no window recorded the
\* deadline is now + w and the caller is the trigger.
C6_NotifyKeepsLaterDeadline ==
    [][\A t \in RLTasks :
        Notifies(t) =>
            LET w == task[t].wait_time
                new == now + w
            IN  /\ rl'.is_waiting
                /\ ~WindowRecorded(rl) =>
                    /\ rl'.wait_until = new
                    /\ rl'.wait_time = w
                    /\ rl'.trigger_thread_id = thread_id(t)
                    /\ triggerTask' = t
                /\ (WindowRecorded(rl) /\ new > rl.wait_until) =>
                    /\ rl'.wait_until = new
                    /\ rl'.wait_time = w
                    /\ rl'.trigger_thread_id = thread_id(t)
                    /\ triggerTask' = t
                /\ (WindowRecorded(rl) /\ new <= rl.wait_until) =>
                    /\ rl'.wait_until = rl.wait_until
                    /\ rl'.wait_time = rl.wait_time
                    /\ rl'.trigger_thread_id = rl.trigger_thread_id
                    /\ triggerTask' = triggerTask]_vars

\* C6 witness: two tasks have notified; the window is the one of the later deadline,
\* the other task's now + w lies before it
C6_Witness ==
    \E a \in RLTasks, b \in RLTasks :
        /\ a # b
        /\ WindowRecorded(rl)
        /\ triggerTask = b
        /\ obs[b].notifyAt # None
        /\ obs[b].notifyAt + task[b].wait_time = rl.wait_until
        /\ obs[a].notifyAt # None
        /\ obs[a].waitRetAt = None
        /\ obs[a].notifyAt + task[a].wait_time < rl.wait_until

\* C7: at most one cool-down in flight.  When two tasks call notifyRateLimit at the
\* same instant now, no window recorded before the first call (and no third task
\* notifies), each
\* followed by its waitForCompletion, then the deadline each of them waits for is
\* now + max(w1, w2), and exactly one of them, one that supplied the maximum, resets
\* the state.
C7_OneCooldownInFlight ==
    \A a \in RLTasks, b \in RLTasks :
        (/\ a # b
         /\ obs[a].callAt # None
         /\ obs[a].callAt = obs[b].callAt
         /\ obs[a].cleanCall
         /\ obs[a].waitRetAt # None
         /\ obs[b].waitRetAt # None
         /\ \A c \in RLTasks \ {a, b} : obs[c].callAt = None)
        => LET m == IF task[a].wait_time >= task[b].wait_time
                    THEN task[a].wait_time ELSE task[b].wait_time
           IN  /\ obs[a].waitUntil = obs[a].callAt + m
               /\ obs[b].waitUntil = obs[a].callAt + m
               /\ obs[a].waitReset # obs[b].waitReset
               /\ obs[a].waitReset => task[a].wait_time = m
               /\ obs[b].waitReset => task[b].wait_time = m

\* C8: the recorded state goes back to the default only in a step in which the task
\* recorded as trigger returns from waitForCompletion, the deadline having passed.
C8_ResetOnlyByTrigger ==
    [][(WindowRecorded(rl) /\ ~WindowRecorded(rl')) =>
            \E t \in RLTasks :
                /\ task[t].pc \in {"wait", "wait_sleep"}
                /\ task'[t].pc = "attempt"
                /\ t = triggerTask
                /\ now >= rl.wait_until]_vars

\* C9: a task that waits out a cool-down in checkAndWaitIfNeeded or
\* waitForCompletion does not hold the coordinator's lock while it waits.
C9_NoLockWhileWaiting ==
    \A t \in RLTasks :
        (task[t].pc \in {"check_sleep", "wait_sleep"} /\ now < task[t].wake)
            => ~Holds(t)

\* C10: checkAndWaitIfNeeded returns true exactly when, at the call, a window was
\* recorded with now < T, and then not before T; with a window whose T has passed it
\* resets the state and returns false at once; with no window it returns false at
\* once and leaves the state as it is.
C10_CheckAndWait ==
    \A t \in RLTasks :
        obs[t].checkRetAt # None =>
            /\ obs[t].checkRet <=> obs[t].checkWindow = "open"
            /\ obs[t].checkRet => obs[t].checkRetAt >= obs[t].checkUntil
            /\ obs[t].checkWindow = "expired" =>
                /\ obs[t].checkReset
                /\ obs[t].checkRetAt = obs[t].checkAt
            /\ obs[t].checkWindow = "none" =>
                /\ obs[t].checkSame
                /\ obs[t].checkRetAt = obs[t].checkAt


\* the calls of the behaviour that have returned or raised
Ended == {t \in RLTasks : task[t].pc \in {"returned", "raised"}}

RateLimited(t) ==
    /\ task[t].pc = "attempt"
    /\ task'[t].pc # "attempt"
    /\ budget'.rate_limits = budget.rate_limits + 1

\* C12: a save call raises the RateLimitError exactly when it has already waited
\* max_retries times with the coordinator, that failure being its (max_retries + 1)-th
\* rate-limited call of the sink; before that it notifies the coordinator and then
\* waits for the completion itself, and a call of the sink that succeeds ends save in
\* the same step.
C12_RateLimitRetries ==
    [][\A t \in RLTasks :
        /\ RateLimited(t) =>
              IF task[t].waits = max_retries
                 THEN /\ task'[t].pc = "raised"
                      /\ task[t].attempts
                            = max_retries + 1 + task[t].index_error_attempts
                 ELSE /\ task[t].waits < max_retries
                      /\ task'[t].pc = "notify"
        /\ (task[t].pc = "notify" /\ task'[t].pc # "notify") => task'[t].pc = "wait"
        /\ (task[t].pc \in {"wait", "wait_sleep"}
                /\ task'[t].pc \notin {"wait", "wait_sleep"})
              => /\ task'[t].pc = "attempt"
                 /\ task'[t].waits = task[t].waits + 1
        /\ task'[t].waits # task[t].waits => task[t].pc \in {"wait", "wait_sleep"}
        /\ (task[t].pc # "returned" /\ task'[t].pc = "returned")
              => task[t].pc = "attempt" /\ UNCHANGED <<rl, lock, now, budget>>
    ]_vars

\* one call has raised after four rate-limited calls of the sink and three waits,
\* and the sink has answered no call with another error it retries on
C12_Witness ==
    \E t \in RLTasks :
        /\ task[t].raised = "RateLimitError"
        /\ task[t].attempts = max_retries + 1
        /\ task[t].waits = max_retries
        /\ budget.rate_limits = max_retries + 1
        /\ budget.index_errors = 0


\* the sink answers the call of task t with IndexError("list index out of range")
\* in this step
IndexConflict(t) ==
    /\ task[t].pc = "attempt"
    /\ task'[t].pc # "attempt"
    /\ budget'.index_errors = budget.index_errors + 1

\* the retries a call has made after index conflicts
ConflictRetries(tk) == tk.attempts - 1 - tk.waits

\* C13: after an index conflict a save call that has retried k < max_retries times
\* on conflicts sleeps until 2^k seconds later and then calls the sink again, and
\* with k = max_retries it raises the IndexError; from the conflict to the retry it
\* neither changes the coordinator's state nor asks for its lock.
C13_IndexConflictBackoff ==
    [][\A t \in RLTasks :
        /\ IndexConflict(t) =>
              /\ UNCHANGED <<rl, lock, now>>
              /\ IF ConflictRetries(task[t]) < max_retries
                    THEN /\ task'[t].pc = "backoff"
                         /\ task'[t].wake = now + 2 ^ ConflictRetries(task[t])
                    ELSE /\ ConflictRetries(task[t]) = max_retries
                         /\ task'[t].raised = "IndexError"
        /\ (task[t].pc = "backoff" /\ task'[t].pc # "backoff") =>
              /\ task'[t].pc = "attempt"
              /\ now = task[t].wake
              /\ ConflictRetries(task'[t]) = ConflictRetries(task[t]) + 1
              /\ UNCHANGED <<rl, lock, now>>
        /\ task'[t].pc = "backoff" => \A i \in 1..Len(lock') : lock'[i] # t
    ]_vars

\* a call has raised after four index conflicts, having slept 1, 2 and 4 seconds
C13_Witness ==
    \E t \in RLTasks :
        /\ task[t].raised = "IndexError"
        /\ task[t].attempts = max_retries + 1
        /\ task[t].waits = 0
        /\ now = 7


\* C14: an error of the sink that is neither a RateLimitError nor an index conflict
\* ends the save call on the attempt that met it: the call raises in the same step,
\* with no wait and no further attempt, and the coordinator's state and lock are
\* left as they were.
C14_OtherErrorsRaisedAtOnce ==
    [][\A t \in RLTasks :
        (task'[t].raised = "Exception" /\ task[t].raised # "Exception") =>
            /\ task[t].pc = "attempt"
            /\ task'[t].pc = "raised"
            /\ task'[t].attempts = task[t].attempts
            /\ task'[t].waits = task[t].waits
            /\ UNCHANGED <<rl, lock, now, budget>>
    ]_vars

\* a call has raised such an error on its first attempt while the coordinator had a
\* window recorded
C14_Witness ==
    \E t \in RLTasks :
        /\ task[t].raised = "Exception"
        /\ task[t].attempts = 1
        /\ task[t].waits = 0
        /\ WindowRecorded(rl)


\* the two counters of the save call of task t
Counters(tk) == <<tk.rate_limit_attempts, tk.index_error_attempts>>

\* C15: the two retry counters of a save call are independent and its own: both are 0
\* when the call begins; a rate limit is retried whenever rate_limit_attempts is
\* below max_retries and an index conflict whenever index_error_attempts is, whatever
\* the other counter holds; a retry adds one to its own counter and leaves the other;
\* no step changes the counters of two calls; and a call makes at most
\* 2 * max_retries + 1 attempts.
C15_IndependentCounters ==
    [][/\ \A t \in RLTasks :
            /\ (task[t].pc = "idle" /\ task'[t].pc # "idle")
                  => Counters(task'[t]) = <<0, 0>>
            /\ RateLimited(t) =>
                  /\ (task[t].rate_limit_attempts < max_retries) = (task'[t].pc = "notify")
                  /\ task'[t].pc = "notify" => Counters(task'[t]) = Counters(task[t])
            /\ IndexConflict(t) =>
                  /\ (task[t].index_error_attempts < max_retries)
                        = (task'[t].pc = "backoff")
                  /\ task'[t].pc = "backoff" => Counters(task'[t]) = Counters(task[t])
            /\ (task[t].pc \in {"wait", "wait_sleep"} /\ task'[t].pc = "attempt")
                  => Counters(task'[t]) = <<task[t].rate_limit_attempts + 1,
                                            task[t].index_error_attempts>>
            /\ (task[t].pc = "backoff" /\ task'[t].pc = "attempt")
                  => Counters(task'[t]) = <<task[t].rate_limit_attempts,
                                            task[t].index_error_attempts + 1>>
            /\ task'[t].attempts <= 2 * max_retries + 1
       /\ Cardinality({t \in RLTasks : Counters(task'[t]) # Counters(task[t])}) <= 1
    ]_vars

\* a call has made 2 * max_retries + 1 attempts: three retries after rate limits and
\* three after index conflicts
C15_Witness ==
    \E t \in RLTasks :
        /\ task[t].attempts = 2 * max_retries + 1
        /\ task[t].waits = max_retries
        /\ task[t].pc \in {"returned", "raised"}


\* the documents of which run r recorded a failure: the parser or the conversion
\* raised in phase 1, or a save of one of its episodes raised in phase 2
FailedIn(r) == {d \in DocIds : <<r, d>> \in history.failed}

\* C16: a run that returns its result reports success = FALSE exactly when a file
\* failed in it, in phase 1 or in the registration of phase 2.
C16_SuccessIffNoFailure ==
    (pc = "ended" /\ run \in history.returned) => (success = (FailedIn(run) = {}))


\* the units of document d that run r has handed to the sink
AttemptedIn(r, d) == {p \in 0..(NumChunks - 1) : <<r, d, p>> \in sinkCalls}

\* C17: in the first run over a tree, the failure of a file (its parsing, its
\* conversion, the write of its checkpoints or the save of one of its episodes) does
\* not keep the run from attempting the others: when the run returns, every unit of
\* every file that did not fail itself has been handed to the sink.
C17_FailureContainment ==
    (pc = "ended" /\ run = 1 /\ 1 \in history.returned /\ FailedIn(1) # {})
        => \A d \in DocIds \ FailedIn(1) : AttemptedIn(1, d) = 0..(NumChunks - 1)


\* the source file of document d goes from in progress to done in this step
MovedToDone(d) ==
    /\ InPlace(d, InProgressDir)
    /\ \E f \in files' : f.doc = d /\ IsBelow(f.path, DoneDir)

\* C18: a file is moved to done only when no episode checkpoint of the file is left
\* on disk, in whatever order its episodes were completed.
C18_DoneOnlyWithoutCheckpoints ==
    [][\A d \in DocIds :
        MovedToDone(d) => \A e \in store'.ep : e.ep.doc # d]_vars


\* the path of document d below the pending directory when the first run starts
OriginalRelativeName(d) ==
    Drop((CHOOSE f \in InitialFiles : f.doc = d).path, Len(PendingDir))

\* C19: the completion move puts the file in done once, under its original relative
\* name: after the step that takes a file from in progress to done, the tree holds
\* one copy of the file, at done/<original relative name>, and the step records no
\* failed file.
C19_CompletionMoveOnce ==
    [][\A d \in DocIds :
        MovedToDone(d) =>
            /\ {f.path : f \in {g \in files' : g.doc = d}}
                    = {DoneDir \o OriginalRelativeName(d)}
            /\ failed_files' = failed_files]_vars


\* phase 1 finishes the conversion of document d in this step, from unit checkpoints
Resumes(d) ==
    /\ pc = "phase1"
    /\ d \in DOMAIN documents
    /\ documents[d].st = "todo"
    /\ has_chunk_files(store, documents[d].file_path)
    /\ documents'[d].st # "todo"
    /\ faults' = faults

\* the episodes that step has made
Converted(d) ==
    IF documents'[d].st = "converted" THEN documents'[d].episodes
    ELSE Drop(all_episodes', Len(all_episodes))

\* C20: phase 1 on a document whose unit checkpoint records
\* last_processed_position = k converts the units at positions k+1 .. end, each once
\* and in order.
C20_ResumeIdempotence ==
    [][\A d \in DocIds :
        Resumes(d) =>
            LET k == LoadMetadata(store, documents[d].file_path).last_processed_position
            IN  [i \in 1..Len(Converted(d)) |-> Converted(d)[i].pos]
                    = [i \in 1..(NumChunks - 1 - k) |-> k + i]]_vars


\* the conversion of document d fails in this step of a first pass over the document:
\* unit checkpoints appear for it
ConversionFails(d) ==
    /\ pc = "phase1"
    /\ d \in DOMAIN documents
    /\ documents[d].st = "todo"
    /\ documents'[d].st = "finished"
    /\ faults' = faults + 1
    /\ ~has_chunk_files(store, documents[d].file_path)
    /\ has_chunk_files(store', documents[d].file_path)

\* C21: when the conversion of unit i of a document fails in phase 1, the units from
\* i onward are written as unit checkpoints with last_processed_position = i - 1, the
\* document is finished for this run and recorded as failed, and the work done for
\* the units 0..i-1 is kept: each of them is handed to phase 2, has an episode
\* checkpoint on disk or is registered.
C21_ConversionFailureKeepsWork ==
    [][\A d \in DocIds :
        ConversionFails(d) =>
            LET file_path == documents[d].file_path
                i == LoadMetadata(store', file_path).last_processed_position + 1
            IN  /\ {c.pos : c \in {x \in store'.chunk :
                                     x.dir = _get_chunk_directory(file_path)}}
                        = i..(NumChunks - 1)
                /\ file_path \in failed_files'
                /\ \A p \in 0..(i - 1) :
                        \/ <<d, p>> \in registered'
                        \/ \E e \in store'.ep : e.ep.doc = d /\ e.ep.pos = p
                        \/ \E j \in 1..Len(all_episodes') :
                                all_episodes'[j].doc = d /\ all_episodes'[j].pos = p]_vars


\* C22: save_chunks followed by load_chunks gives the units back: when phase 1 saves
\* the units that remain after a conversion failure, in position order, load_chunks
\* for the same path returns exactly these units in the same order.
C22_UnitRoundTrip ==
    [][\A d \in DocIds :
        ConversionFails(d) =>
            LET file_path == documents[d].file_path
                saved == {c.chunk : c \in {x \in store'.chunk :
                                             x.dir = _get_chunk_directory(file_path)}}
                loaded == load_chunks(store', file_path)
            IN  /\ {loaded[i] : i \in 1..Len(loaded)} = saved
                /\ Len(loaded) = Cardinality(saved)
                /\ \A i, j \in 1..Len(loaded) : i < j => loaded[i].pos < loaded[j].pos]_vars


C24_SharedPermits ==
    (/\ pc = "phase2"
     /\ current # NoFile
     /\ Len(episodes_by_file) > 1
     /\ Cardinality(InSemaphore) < register_workers)
        => ENABLED (P2StartFile \/ \E idx \in 0..(NumChunks - 1) : TaskStart(idx))


(***************************************************************************)
(* Properties of the file lifecycle                                        *)
(***************************************************************************)

\* a step of move_file
MoveStep == fs'.arrived = fs.arrived /\ fs'.file # fs.file

\* the document at a path of the tree, 0 when there is none
DocAt(fls, p) == IF \E f \in fls : f.path = p THEN (CHOOSE f \in fls : f.path = p).doc ELSE 0

\* C25: a file at relative path r under the configured root, moved to a directory D
\* where D/r is free, is at D/r afterwards, D/r is the path returned, and the source
\* path is gone.
C25_MoveKeepsRelativePath ==
    [][MoveStep =>
        LET m    == fs'.moved
            root == Absolute(fs.base)
            r    == RelativeTo(m.source_path, root)
            to   == Absolute(PathJoin(m.destination_directory, r))
        IN  (IsBelow(m.source_path, root) /\ ~Exists(fs.file, to))
                => /\ DocAt(fs'.file, to) = DocAt(fs.file, m.source_path)
                   /\ Absolute(m.returned) = to
                   /\ ~Exists(fs'.file, m.source_path)]_vars

\* C26: a move leaves every file that was in the tree before it, other than the file
\* it moves, where it was and as it was.
C26_MoveNeverOverwrites ==
    [][MoveStep =>
        \A f \in fs.file : f.path # fs'.moved.source_path => f \in fs'.file]_vars

\* C27: the directories a move removes are ancestors of the source that are empty
\* afterwards; the pending, in progress and done directories and their parent stay.
C27_PruneOnlyBelowRoots ==
    [][MoveStep =>
        \A d \in fs.dir \ fs'.dir :
            /\ d \notin {PendingDir, InProgressDir, DoneDir, DirRoot}
            /\ IsBelow(fs'.moved.source_path, d)
            /\ ~HasEntries(fs'.file, fs'.dir, d)]_vars


(***************************************************************************)
(* Properties of the functions                                             *)
(***************************************************************************)

\* a call of _determine_optimal_workers that has returned
Decided == call.fn = "_determine_optimal_workers" /\ call.done

\* the documents of the call, and those of the given types
NumDocs(types) == SumOver(call.type_counter, types)

HeaderSeconds(h) ==
    CASE h = <<"0">> -> {0}
      [] h = <<"2">> -> {2}
      [] h = <<"1", ".", "5">> -> {1}
      [] h = <<"3", "s">> -> {3}
      [] h = <<"0", ".", "5", "s">> -> {0}
      [] h = <<"1", "m">> -> {60}
      [] h = <<"1", "m", "1", ".", "3", "s">> -> {61}
      [] h = <<"5", "m", "s">> -> {0}
      [] OTHER -> {}

\* C30: the wait announced on a rate limit error is the larger of the retry-after
\* value and the reset duration, in whole seconds, plus one second when one of the
\* two is there and is a time, and the default wait otherwise (a reset duration
\* below one second may count as either).
C30_AnnouncedWait ==
    (call.fn = "extract_retry_after_time" /\ call.done) =>
        LET retry_after == HeaderSeconds(call.headers.retry_after)
            reset       == HeaderSeconds(call.headers.reset_tokens)
            times       == retry_after \cup reset
        IN  IF times = {} THEN call.returned = default_wait_time
            ELSE \/ call.returned = max(times) + 1
                 \/ /\ retry_after = {} /\ reset = {0}
                    /\ call.returned = default_wait_time


\* C29: every run calls initialize once, when it starts and so before a document is
\* parsed or an episode saved; the run whose initialize fails ends there: it parses,
\* stages, registers and moves nothing.
C29_InitializeOnceAndFirst ==
    [][/\ run' # run => /\ run' = run + 1
                        /\ history'.initialize = history.initialize \o <<run'>>
       /\ run' = run => /\ history'.initialize = history.initialize
                        /\ pc' # "ended" => run \notin history.aborted
                        /\ run \in history.aborted
                              => UNCHANGED <<files, store, registered, documents>>
       /\ run' \in history'.aborted /\ run' # run
              => /\ pc' = "ended"
                 /\ documents' = << >>
                 /\ UNCHANGED <<files, store, registered>>]_vars

\* a run has ended by the failure of its initialize, after a run that staged units
C29_Witness ==
    /\ run \in history.aborted
    /\ pc = "ended"
    /\ store # EmptyStore


\* C40: for one document or more and one worker or more asked for, the workers given
\* are never more than those asked for and never more than the documents.
C40_WorkersWithinRequest ==
    (Decided /\ NumDocs(DOMAIN call.type_counter) >= 1 /\ call.requested_workers >= 1)
        => /\ call.returned <= call.requested_workers
           /\ call.returned <= NumDocs(DOMAIN call.type_counter)


\* phase 1 moves document d from pending to in progress in this step
MovedToInProgress(d) ==
    /\ pc = "phase1"
    /\ d \in DOMAIN documents
    /\ d \in DOMAIN documents'
    /\ InPlace(d, PendingDir)
    /\ \E f \in files' : f.doc = d /\ IsBelow(f.path, InProgressDir)

\* C33: the staging directory of a file is the same derived from its pending path and
\* from its in-progress path: the store root plus the file's relative path.
C33_StagingKeyIdentity ==
    [][\A d \in DocIds :
        MovedToInProgress(d) =>
            /\ _get_chunk_directory(documents'[d].file_path)
                  = _get_chunk_directory(documents[d].file_path)
            /\ _get_chunk_directory(documents[d].file_path)
                  = Absolute(ChunksDirectory \o OriginalRelativeName(d))]_vars



\* C34: load_episodes(path) without a range gives every episode checkpoint that is
\* left on disk for the path, in index order, whichever indices are gone.
C34_LoadEpisodesWithoutRange ==
    (call.fn = "load_episodes" /\ call.done) =>
        LET saved == call.episodes
            left  == SortedIds((0..(Len(saved) - 1)) \ call.deleted)
        IN  call.returned = [k \in 1..Len(left) |-> saved[left[k] + 1]]


\* the checkpoint files of a document on disk, unit and episode checkpoints alike
CheckpointsOf(st, d) ==
    {c \in st.chunk : c.chunk.doc = d} \cup {e \in st.ep : e.ep.doc = d}

\* C35: a document of pending whose parsing fails in phase 1 stays in pending for the rest of
\* the run, gets no unit or episode checkpoint written, is recorded as failed (the
\* run returns success = FALSE), and is not tried again in the run: none of its
\* units reaches the sink; the documents of the run that do not fail themselves
\* are processed as usual: when the first run over the tree returns, each of them has
\* left pending and each of its units is registered or staged as an episode checkpoint.
C35_ParseFailureIsolated ==
    [][\A d \in DocIds :
        (<<run', d>> \in history'.parse_failed /\ run' = run /\ InPlace(d, PendingDir)) =>
            /\ \E f \in files' : f.doc = d /\ IsBelow(f.path, PendingDir)
            /\ {f \in files' : f.doc = d} = {f \in files : f.doc = d}
            /\ CheckpointsOf(store', d) \subseteq CheckpointsOf(store, d)
            /\ AttemptedIn(run, d) = {} /\ AttemptedIn(run', d) = {}
            /\ pc' \in {"phase1", "phase2", "final"} =>
                    /\ d \in DOMAIN documents'
                    /\ documents'[d].st = "finished"
                    /\ documents'[d].file_path \in failed_files'
            /\ run' \in history'.returned =>
                    /\ success' = FALSE
                    /\ run' = 1 => \A o \in DocIds \ FailedIn(1)' :
                            /\ \E f \in files' : f.doc = o /\ ~IsBelow(f.path, PendingDir)
                            /\ \A u \in {o} \X (0..(NumChunks - 1)) :
                                    u \in registered' \/ \E e \in store'.ep :
                                        e.ep.doc = u[1] /\ e.ep.pos = u[2]]_vars

\* a run has returned in which the parsing of one document failed and the units of
\* the other went to the sink
C35_Witness ==
    /\ pc = "ended" /\ run = 1 /\ 1 \in history.returned
    /\ \E d \in DocIds :
        /\ <<1, d>> \in history.parse_failed
        /\ InPlace(d, PendingDir)
        /\ \A o \in DocIds \ {d} : AttemptedIn(1, o) = 0..(NumChunks - 1)


\* C36: after a run that returned with documents failed in phase 1, a second run over
\* the same directory in which the parser, the conversion and the sink raise nothing
\* returns success = TRUE and leaves no file in pending.
C36_RerunAfterFailure ==
    (/\ pc = "ended" /\ run = 2 /\ {1, 2} \subseteq history.returned
     /\ 2 \notin history.raised
     /\ \E d \in DocIds : <<1, d>> \in history.parse_failed \cup history.convert_failed)
        => /\ success = TRUE
           /\ \A f \in files : ~IsBelow(f.path, PendingDir)

\* the second run has returned success after a first run with a phase-1 failure
C36_Witness ==
    /\ pc = "ended" /\ run = 2 /\ {1, 2} \subseteq history.returned
    /\ \E d \in DocIds : <<1, d>> \in history.parse_failed \cup history.convert_failed
    /\ success = TRUE
    /\ \A f \in files : ~IsBelow(f.path, PendingDir)


\* the stage of the tree that holds the file of a document: 0 pending, 1 in progress,
\* 2 done
StageOf(fls, d) ==
    IF \E f \in fls : f.doc = d /\ IsBelow(f.path, DoneDir) THEN 2
    ELSE IF \E f \in fls : f.doc = d /\ IsBelow(f.path, InProgressDir) THEN 1
    ELSE 0

\* C32: the place of a file only advances, pending -> in progress -> done: no step
\* moves it backward, none takes it from pending to done at once, and it leaves
\* pending only with its episodes staged (each unit of the document has an episode
\* checkpoint on disk or is registered).
C32_LocationOnlyAdvances ==
    [][\A d \in DocIds :
        /\ StageOf(files', d) >= StageOf(files, d)
        /\ StageOf(files', d) <= StageOf(files, d) + 1
        /\ (StageOf(files, d) = 0 /\ StageOf(files', d) = 1) =>
                \A u \in {d} \X (0..(NumChunks - 1)) :
                    u \in registered' \/ EpisodeOnDisk(u)']_vars


\* C39: phase 2 groups every episode under the document it was derived from: each
\* group of episodes_by_file carries the path of one document and holds episodes of
\* that document only, also for two documents of the same file name in different
\* subdirectories and for a file name that is part of another.
C39_EpisodesGroupedBySource ==
    (call.fn = "_save_episodes_with_progress_tracking" /\ call.done) =>
        \A k \in 1..Len(call.returned) :
            \E i \in 1..Len(call.documents) :
                /\ call.documents[i].file_path = call.returned[k].file_path
                /\ \A n \in 1..Len(call.returned[k].episodes) :
                        call.returned[k].episodes[n].doc = call.documents[i].doc


\* C37: while a cool-down window is open (a window is recorded and now is before its
\* deadline) no save call starts an attempt at the sink: not the first attempt of a
\* call, not the retry after a rate-limit wait, not the retry after a conflict
\* backoff.
C37_NoAttemptInOpenWindow ==
    [][\A t \in RLTasks :
        task'[t].attempts = task[t].attempts + 1
            => ~(WindowRecorded(rl') /\ now' < rl'.wait_until)]_vars


\* C38: a window that notify_rate_limit has opened or extended does not stay: with
\* every notifier going on to wait_for_rate_limit_completion the coordinator's state
\* comes back to the default, and once every save call has ended the state is not
\* left waiting.
C38_WindowEventuallyCleared ==
    /\ (rl.is_waiting ~> rl = RateLimitState)
    /\ [](Ended = 1..budget.calls => ~rl.is_waiting)

\* every save call has ended, windows were opened and waited for by more than one
\* call, and the state is the default again
C38_Witness ==
    /\ Ended = 1..budget.calls
    /\ Cardinality({t \in RLTasks : task[t].waits > 0}) > 1
    /\ rl = RateLimitState


\* the run has registered every episode of the document: each of its tasks has
\* returned from the sink and deleted its checkpoint
AllRegistered(d) == \A p \in 0..(NumChunks - 1) : <<run, d, p>> \in history.completed

=============================================================================
